---------------------------- MODULE Spec2Model ----------------------------
(***************************************************************************)
(* Model of the bank reconciliation engine of ConciliadorDePagos.          *)
(*                                                                         *)
(*   performReconciliation / findSupplierMatch / calculateStats            *)
(*       services/reconciliation/reconciliationService.ts in its tiered    *)
(*       (amount, month/year, closest date) revision: src/unnamed/part_002 *)
(*   amountsMatch              src/src/utils/currency.ts                   *)
(*   useReconciliation hook    src/src/hooks/useReconciliation.ts          *)
(*                                                                         *)
(* Representation.                                                         *)
(*   - An amount (a JS number) is an integer count of thousandths of a     *)
(*     euro, so the default tolerance 0.01 is 10.                          *)
(*   - A date string "DD/MM/YYYY" is the record of its three '/'-separated *)
(*     parts [d, m, y]; NoDate is a string that does not split into three  *)
(*     parts (the empty string the Excel parser can produce).              *)
(*   - Date.getTime() is counted in days (local midnights), not in ms.     *)
(*   - A value that may be null is a sequence of length 0 (null) or 1.     *)
(*   - matchPercentage, a quotient, is the exact fraction [num, den].      *)
(***************************************************************************)
EXTENDS Integers, Sequences, FiniteSets, TLC

VARIABLES
    bankRecords,        \* argument bankRecords of performReconciliation
    supplierRecords,    \* argument supplierRecords of performReconciliation
    options,            \* argument options of performReconciliation
    availableSuppliers, \* the shrinking pool
    matchedRecords,     \* the output records produced so far
    poolAtCall,         \* the pool as handed to the last findSupplierMatch call
    matchLog,           \* what each findSupplierMatch call returned, in order
    result,             \* the value returned by performReconciliation
    pc,                 \* position of the call: "map", "stats", "returned", "idle"
    results,            \* hook state: results
    stats,              \* hook state: stats
    updateArgs,         \* arguments of the last updateDocument call
    isProcessing,       \* hook state: isProcessing
    error,              \* hook state: error
    bankUpload,         \* bankUpload.files of the provider
    supplierUpload,     \* supplierUpload.files of the provider
    invocations,        \* the process invocations made so far, in call order
    input,              \* argument of the utility function under check
    output,             \* what the utility function returned
    loadingPromise,     \* pdfLoader.ts: loadingPromise, null or a promise
    isLoaded,           \* pdfLoader.ts: isLoaded
    pdfjsLib,           \* window.pdfjsLib is defined
    scripts,            \* the script elements appended to the document
    promises,           \* the promises created by loadPdfLibrary
    handed              \* what each loadPdfLibrary call returned, in order

\* one performReconciliation call
callVars == <<bankRecords, supplierRecords, options, availableSuppliers,
              matchedRecords, poolAtCall, matchLog, result, pc, updateArgs>>

\* process and the state of the hook around it
processVars == <<isProcessing, error, bankUpload, supplierUpload, invocations>>

\* one call of a utility function
utilVars == <<input, output>>

\* the loader of the PDF library
loaderVars == <<loadingPromise, isLoaded, pdfjsLib, scripts, promises, handed>>

vars == <<bankRecords, supplierRecords, options, availableSuppliers,
          matchedRecords, poolAtCall, matchLog, result, pc, results, stats,
          updateArgs, isProcessing, error, bankUpload, supplierUpload,
          invocations, input, output, loadingPromise, isLoaded, pdfjsLib,
          scripts, promises, handed>>

-----------------------------------------------------------------------------
(* Bounds of the model. *)

MaxBank == 2
MaxSuppliers == 3

-----------------------------------------------------------------------------
(* Values that may be null. *)

Null == <<>>
Some(x) == <<x>>
IsNull(v) == Len(v) = 0
Val(v) == v[1]

Abs(x) == IF x < 0 THEN -x ELSE x

-----------------------------------------------------------------------------
(* Dates. *)

Date(d, m, y) == [d |-> d, m |-> m, y |-> y]
NoDate == [d |-> 0, m |-> 0, y |-> 0]

\* parts.length !== 3
Unsplittable(dateStr) == dateStr = NoDate

\* getMonthYear: "MM/YYYY" or null
getMonthYear(dateStr) ==
    IF Unsplittable(dateStr) THEN Null ELSE Some(<<dateStr.m, dateStr.y>>)

\* new Date(year, month - 1, day).getTime(), in days since 1970-01-01;
\* a day beyond the end of the month rolls over into the next one, as in JS.
DaysFromCivil(y, m, d) ==
    LET yy  == IF m <= 2 THEN y - 1 ELSE y
        era == yy \div 400
        yoe == yy - era * 400
        mp  == IF m > 2 THEN m - 3 ELSE m + 9
        doy == (153 * mp + 2) \div 5 + d - 1
        doe == yoe * 365 + yoe \div 4 - yoe \div 100 + doy
    IN  era * 146097 + doe - 719468

\* parseDate: a Date or null
parseDate(dateStr) ==
    IF Unsplittable(dateStr) THEN Null
    ELSE Some(DaysFromCivil(dateStr.y, dateStr.m, dateStr.d))


-----------------------------------------------------------------------------
(* utils/currency.ts *)

amountsMatchInclusive(amount1, amount2, tolerance) ==
    Abs(Abs(amount1) - Abs(amount2)) <= tolerance

amountsMatchSigned(amount1, amount2, tolerance) ==
    Abs(amount1 - amount2) < tolerance

\* Math.abs(Math.abs(amount1) - Math.abs(amount2)) < tolerance
amountsMatch(amount1, amount2, tolerance) ==
    Abs(Abs(amount1) - Abs(amount2)) < tolerance

-----------------------------------------------------------------------------
(* services/reconciliation/reconciliationService.ts *)

DefaultTolerance == 10

DEFAULT_OPTIONS ==
    [amountTolerance |-> DefaultTolerance, useAccountingDate |-> TRUE]

\* { ...DEFAULT_OPTIONS, ...options }
MergeOptions(defaults, given) ==
    [k \in DOMAIN defaults |->
        IF k \in DOMAIN given THEN given[k] ELSE defaults[k]]

mergedOptions == MergeOptions(DEFAULT_OPTIONS, options)

\* The loop of findClosestDateMatch from element i on: closestSupplier is
\* replaced only by a supplier whose date parses and is strictly nearer.
\* smallestDiff is null while it is still Infinity.
RECURSIVE ClosestLoop(_, _, _, _, _)
ClosestLoop(suppliers, targetDateTime, i, closestSupplier, smallestDiff) ==
    IF i > Len(suppliers) THEN closestSupplier
    ELSE
        LET supplierDateTime == parseDate(suppliers[i].fecha)
        IN  IF IsNull(supplierDateTime)
            THEN ClosestLoop(suppliers, targetDateTime, i + 1,
                             closestSupplier, smallestDiff)
            ELSE
                LET diff == Abs(targetDateTime - Val(supplierDateTime))
                IN  IF IsNull(smallestDiff) \/ diff < Val(smallestDiff)
                    THEN ClosestLoop(suppliers, targetDateTime, i + 1,
                                     suppliers[i], Some(diff))
                    ELSE ClosestLoop(suppliers, targetDateTime, i + 1,
                                     closestSupplier, smallestDiff)

findClosestDateMatchFirst(suppliers, targetDate) ==
    IF Len(suppliers) = 0 THEN Null ELSE Some(suppliers[1])

findClosestDateMatch(suppliers, targetDate) ==
    IF Len(suppliers) = 0 THEN Null
    ELSE
        LET targetDateTime == parseDate(targetDate)
        IN  IF IsNull(targetDateTime) THEN Some(suppliers[1])
            ELSE Some(ClosestLoop(suppliers, Val(targetDateTime), 1,
                                  suppliers[1], Null))

\* amountMatches.filter(supplier => getMonthYear(supplier.fecha) === monthYear)
SameMonthYear(suppliers, monthYear) ==
    SelectSeq(suppliers, LAMBDA s : getMonthYear(s.fecha) = monthYear)

\* Paso 1
AmountMatches(bankRecord, suppliers, opts) ==
    SelectSeq(suppliers,
              LAMBDA s : amountsMatch(s.importe, bankRecord.importe,
                                      opts.amountTolerance))

\* Paso 4: the closest date among all the amount matches
ClosestOverall(bankRecord, amountMatches, opts) ==
    LET closestMatch == findClosestDateMatch(amountMatches, bankRecord.fValor)
    IN  IF opts.useAccountingDate /\ ~IsNull(closestMatch)
        THEN
            LET closestWithContable ==
                    findClosestDateMatch(amountMatches, bankRecord.fContable)
                closestDate   == parseDate(Val(closestMatch).fecha)
                fValorDate    == parseDate(bankRecord.fValor)
                fContableDate == parseDate(bankRecord.fContable)
            IN  IF /\ ~IsNull(closestDate)
                   /\ ~IsNull(fValorDate)
                   /\ ~IsNull(fContableDate)
                   /\ ~IsNull(closestWithContable)
                   /\ Abs(Val(closestDate) - Val(fContableDate))
                        < Abs(Val(closestDate) - Val(fValorDate))
                THEN closestWithContable
                ELSE closestMatch
        ELSE closestMatch

ByAccountingMonthSkipped(bankRecord, amountMatches, opts) ==
    ClosestOverall(bankRecord, amountMatches, opts)

ByAccountingMonthUnguarded(bankRecord, amountMatches, opts) ==
    LET fContableMonthYear == getMonthYear(bankRecord.fContable)
        fContableMatches ==
            SameMonthYear(amountMatches, fContableMonthYear)
    IN  IF ~IsNull(fContableMonthYear) /\ Len(fContableMatches) > 0
        THEN IF Len(fContableMatches) > 1
             THEN findClosestDateMatch(fContableMatches, bankRecord.fContable)
             ELSE Some(fContableMatches[1])
        ELSE ClosestOverall(bankRecord, amountMatches, opts)

\* Paso 3 and on: the accounting date's month, then Paso 4
ByAccountingMonth(bankRecord, amountMatches, opts) ==
    LET fContableMonthYear == getMonthYear(bankRecord.fContable)
        fContableMatches ==
            SameMonthYear(amountMatches, fContableMonthYear)
    IN  IF /\ opts.useAccountingDate
           /\ ~IsNull(fContableMonthYear)
           /\ Len(fContableMatches) > 0
        THEN IF Len(fContableMatches) > 1
             THEN findClosestDateMatch(fContableMatches, bankRecord.fContable)
             ELSE Some(fContableMatches[1])
        ELSE ClosestOverall(bankRecord, amountMatches, opts)

ByValueMonthSkipped(bankRecord, amountMatches, opts) ==
    ByAccountingMonth(bankRecord, amountMatches, opts)

\* Paso 2 and on: the value date's month, then Paso 3
ByValueMonth(bankRecord, amountMatches, opts) ==
    LET fValorMonthYear == getMonthYear(bankRecord.fValor)
        fValorMatches == SameMonthYear(amountMatches, fValorMonthYear)
    IN  IF ~IsNull(fValorMonthYear) /\ Len(fValorMatches) > 0
        THEN IF Len(fValorMatches) > 1
             THEN findClosestDateMatch(fValorMatches, bankRecord.fValor)
             ELSE Some(fValorMatches[1])
        ELSE ByAccountingMonth(bankRecord, amountMatches, opts)

findSupplierMatchOnDate(bankRecord, suppliers, opts) ==
    LET matches ==
            SelectSeq(AmountMatches(bankRecord, suppliers, opts),
                      LAMBDA s : \/ s.fecha = bankRecord.fValor
                                 \/ /\ opts.useAccountingDate
                                    /\ s.fecha = bankRecord.fContable)
    IN  IF Len(matches) > 0 THEN Some(matches[1]) ELSE Null

findSupplierMatch(bankRecord, suppliers, opts) ==
    LET amountMatches == AmountMatches(bankRecord, suppliers, opts)
    IN  IF Len(amountMatches) = 0 THEN Null
        ELSE IF Len(amountMatches) = 1 THEN Some(amountMatches[1])
        ELSE ByValueMonth(bankRecord, amountMatches, opts)


\* availableSuppliers.findIndex(s => s.id === id): 0-based, -1 when absent
RECURSIVE FindIndexFrom(_, _, _)
FindIndexFrom(suppliers, id, i) ==
    IF i > Len(suppliers) THEN -1
    ELSE IF suppliers[i].id = id THEN i - 1
    ELSE FindIndexFrom(suppliers, id, i + 1)

findIndex(suppliers, id) == FindIndexFrom(suppliers, id, 1)

\* availableSuppliers.splice(matchIndex, 1), matchIndex 0-based
spliceKeep(suppliers, matchIndex) == suppliers

splice(suppliers, matchIndex) ==
    [j \in 1..(Len(suppliers) - 1) |->
        IF j <= matchIndex THEN suppliers[j] ELSE suppliers[j + 1]]

PoolAfterShift(pool, found) ==
    IF IsNull(found) THEN pool ELSE splice(pool, 0)

\* the pool after the callback has dealt with what findSupplierMatch returned
PoolAfter(pool, found) ==
    IF IsNull(found) THEN pool
    ELSE
        LET matchIndex == findIndex(pool, Val(found).id)
        IN  IF matchIndex > -1 THEN splice(pool, matchIndex) ELSE pool

\* { ...record, <fields> }
Spread(record, fields) ==
    [k \in (DOMAIN record) \cup (DOMAIN fields) |->
        IF k \in DOMAIN fields THEN fields[k] ELSE record[k]]

MatchedRecordNoName(bankRecord, found) ==
    IF IsNull(found)
    THEN Spread(bankRecord, [matchedDoc |-> Null, supplierName |-> Null,
                             status |-> "unmatched"])
    ELSE Spread(bankRecord, [matchedDoc |-> Some(Val(found).documento),
                             supplierName |-> Null,
                             status |-> "match"])

\* the record the callback returns
MatchedRecord(bankRecord, found) ==
    IF IsNull(found)
    THEN Spread(bankRecord, [matchedDoc |-> Null, supplierName |-> Null,
                             status |-> "unmatched"])
    ELSE Spread(bankRecord, [matchedDoc |-> Some(Val(found).documento),
                             supplierName |-> Some(Val(found).nombre),
                             status |-> "match"])

\* Array.prototype.map keeps the input order
MapAppendReversed(records, record) == <<record>> \o records

MapAppend(records, record) == Append(records, record)

calculateStatsUnfiltered(records, supplierTotal) ==
    [bankTotal       |-> Len(records),
     supplierTotal   |-> supplierTotal,
     matches         |-> Len(records),
     unmatchedCount  |-> 0,
     matchPercentage |-> IF Len(records) > 0
                         THEN [num |-> Len(records) * 100,
                               den |-> Len(records)]
                         ELSE [num |-> 0, den |-> 1]]

calculateStatsUnguarded(records, supplierTotal) ==
    LET matches == Len(SelectSeq(records, LAMBDA r : r.status = "match"))
    IN  [bankTotal       |-> Len(records),
         supplierTotal   |-> supplierTotal,
         matches         |-> matches,
         unmatchedCount  |-> Len(records) - matches,
         matchPercentage |-> [num |-> matches * 100, den |-> Len(records)]]

calculateStats(records, supplierTotal) ==
    LET matches == Len(SelectSeq(records, LAMBDA r : r.status = "match"))
        unmatchedCount == Len(records) - matches
        matchPercentage ==
            IF Len(records) > 0
            THEN [num |-> matches * 100, den |-> Len(records)]
            ELSE [num |-> 0, den |-> 1]
    IN  [bankTotal       |-> Len(records),
         supplierTotal   |-> supplierTotal,
         matches         |-> matches,
         unmatchedCount  |-> unmatchedCount,
         matchPercentage |-> matchPercentage]

-----------------------------------------------------------------------------
(* hooks/useReconciliation.ts *)

updateDocumentAll(prevResults, recordId, newDocument) ==
    [j \in 1..Len(prevResults) |->
        Spread(prevResults[j],
               [matchedDoc |-> IF newDocument = "" THEN Null
                               ELSE Some(newDocument)])]

\* prevResults.map(record => record.id === recordId
\*     ? { ...record, matchedDoc: newDocument || null } : record)
updateDocument(prevResults, recordId, newDocument) ==
    [j \in 1..Len(prevResults) |->
        IF prevResults[j].id = recordId
        THEN Spread(prevResults[j],
                    [matchedDoc |-> IF newDocument = "" THEN Null
                                    ELSE Some(newDocument)])
        ELSE prevResults[j]]


-----------------------------------------------------------------------------
(* The inputs of a reconciliation call. *)

D28Dec == Date(28, 12, 2024)
D10Jan == Date(10, 1, 2025)
D20Jan == Date(20, 1, 2025)
D01Feb == Date(1, 2, 2025)
D05Mar == Date(5, 3, 2025)
D31Jan == Date(31, 1, 2025)
D10Feb == Date(10, 2, 2025)
D20Feb == Date(20, 2, 2025)
D31Mar == Date(31, 3, 2025)
D02Apr == Date(2, 4, 2025)

\* A supplier record as the ledger parsers build it; ref stands for the
\* identity of the JS object (its place in the input list).
SupplierRecord(k, id, fecha, importe) ==
    [ref       |-> k,
     id        |-> id,
     fecha     |-> fecha,
     nombre    |-> "PROVEEDOR " \o ToString(k),
     documento |-> ToString(k) \o "/FC/250482",
     importe   |-> importe]

\* A bank record as the statement parsers build it.
BankRecord(id, fContable, fValor, importe) ==
    [id        |-> id,
     fContable |-> fContable,
     fValor    |-> fValor,
     concepto  |-> "RECIBO " \o ToString(id),
     importe   |-> importe]

ListsOf(Kinds, n, Make(_, _)) ==
    UNION { { [k \in 1..len |-> Make(k, f[k])] : f \in [1..len -> Kinds] }
            : len \in 0..n }

\* Same amount everywhere, dates spread over the tiers of findSupplierMatch.
DateSuppliers ==
    ListsOf({D28Dec, D10Jan, D20Jan, D01Feb, NoDate}, MaxSuppliers,
            LAMBDA k, fecha : SupplierRecord(k, k, fecha, 148290))

DateBanks ==
    ListsOf({<<D01Feb, D10Jan>>, <<D01Feb, D05Mar>>}, MaxBank,
            LAMBDA k, dates : BankRecord(k, dates[1], dates[2], -148290))

\* Amounts on both sides of zero, within the tolerance of each other, at and
\* under the tolerance from the bank amounts.
AmountSuppliers ==
    ListsOf({148290, -148295} \X {D10Jan, D01Feb}, MaxSuppliers,
            LAMBDA k, kind : SupplierRecord(k, k, kind[2], kind[1]))

AmountBanks ==
    ListsOf({-148290, 148300}, MaxBank,
            LAMBDA k, importe : BankRecord(k, D10Jan, D10Jan, importe))

\* Ids as generateFileId draws them: they may collide.
IdSuppliers ==
    ListsOf({1, 2} \X {D10Jan, D20Jan}, MaxSuppliers,
            LAMBDA k, kind : SupplierRecord(k, kind[1], kind[2], 148290))

IdBanks ==
    ListsOf({1, 2}, MaxBank,
            LAMBDA k, id : BankRecord(id, D10Jan, D10Jan, -148290))

\* Dates a day or two across a month boundary from the bank dates: nearness
\* in days against the month of the date.
NearSuppliers ==
    ListsOf({D31Jan, D10Feb, D20Feb, D31Mar}, MaxSuppliers,
            LAMBDA k, fecha : SupplierRecord(k, k, fecha, 148290))

NearBanks ==
    ListsOf({<<D20Jan, D01Feb>>, <<D01Feb, D02Apr>>}, MaxBank,
            LAMBDA k, dates : BankRecord(k, dates[1], dates[2], -148290))

\* Two amounts further apart than the tolerance, under ids that may collide
\* across the two.
ClassSuppliers ==
    ListsOf({1, 2} \X {148290, -250000}, MaxSuppliers,
            LAMBDA k, kind : SupplierRecord(k, kind[1], D10Jan, kind[2]))

ClassBanks ==
    ListsOf({-148290, 250000}, MaxBank,
            LAMBDA k, importe : BankRecord(k, D10Jan, D10Jan, importe))

\* options = {}
NoOptions == [k \in {} |-> TRUE]

OptionsGiven == {NoOptions, [useAccountingDate |-> FALSE]}

\* What an operator can type into the document field of a result row.
NewDocuments == {"", "9/FC/250999"}

-----------------------------------------------------------------------------
(* The state machine. *)

\* No process invocation has been made and no file is uploaded.
NoProcess ==
    /\ isProcessing = FALSE
    /\ error = Null
    /\ bankUpload = <<>>
    /\ supplierUpload = <<>>
    /\ invocations = <<>>

\* No utility function is under check.
NoUtil ==
    /\ input = Null
    /\ output = Null

\* the module pdfLoader.ts as loaded: no load asked for
NoLoad ==
    /\ loadingPromise = Null
    /\ isLoaded = FALSE
    /\ pdfjsLib = FALSE
    /\ scripts = <<>>
    /\ promises = <<>>
    /\ handed = <<>>

\* performReconciliation has been called and has copied the supplier list.
Init ==
    /\ \/ /\ bankRecords \in DateBanks
          /\ supplierRecords \in DateSuppliers
          /\ options \in OptionsGiven
       \/ /\ bankRecords \in AmountBanks
          /\ supplierRecords \in AmountSuppliers
          /\ options = NoOptions
       \/ /\ bankRecords \in IdBanks
          /\ supplierRecords \in IdSuppliers
          /\ options = NoOptions
       \/ /\ bankRecords \in NearBanks
          /\ supplierRecords \in NearSuppliers
          /\ options = NoOptions
       \/ /\ bankRecords \in ClassBanks
          /\ supplierRecords \in ClassSuppliers
          /\ options = NoOptions
    /\ availableSuppliers = supplierRecords
    /\ matchedRecords = <<>>
    /\ poolAtCall = <<>>
    /\ matchLog = <<>>
    /\ result = Null
    /\ pc = "map"
    /\ results = <<>>
    /\ stats = Null
    /\ updateArgs = Null
    /\ NoProcess
    /\ NoUtil
    /\ NoLoad

\* One call of the map callback, on the next bank record.
MapCallback ==
    /\ pc = "map"
    /\ Len(matchedRecords) < Len(bankRecords)
    /\ LET bankRecord == bankRecords[Len(matchedRecords) + 1]
           found == findSupplierMatch(bankRecord, availableSuppliers,
                                      mergedOptions)
       IN  /\ poolAtCall' = availableSuppliers
           /\ matchLog' = Append(matchLog, found)
           /\ availableSuppliers' = PoolAfter(availableSuppliers, found)
           /\ matchedRecords' =
                  MapAppend(matchedRecords, MatchedRecord(bankRecord, found))
    /\ UNCHANGED <<bankRecords, supplierRecords, options, result, pc,
                   results, stats, updateArgs>>
    /\ UNCHANGED <<processVars, utilVars, loaderVars>>

\* The map is over: calculateStats and return.
Return ==
    /\ pc = "map"
    /\ Len(matchedRecords) >= Len(bankRecords)
    /\ result' = Some([records |-> matchedRecords,
                       stats   |-> calculateStats(matchedRecords,
                                                  Len(supplierRecords))])
    /\ pc' = "returned"
    /\ UNCHANGED <<bankRecords, supplierRecords, options, availableSuppliers,
                   matchedRecords, poolAtCall, matchLog, results, stats,
                   updateArgs>>
    /\ UNCHANGED <<processVars, utilVars, loaderVars>>

\* process: setResults(result.records); setStats(result.stats).
\* The call's arguments and locals are gone.
Publish ==
    /\ pc = "returned"
    /\ results' = Val(result).records
    /\ stats' = Some(Val(result).stats)
    /\ pc' = "idle"
    /\ bankRecords' = <<>>
    /\ supplierRecords' = <<>>
    /\ options' = NoOptions
    /\ availableSuppliers' = <<>>
    /\ matchedRecords' = <<>>
    /\ poolAtCall' = <<>>
    /\ matchLog' = <<>>
    /\ result' = Null
    /\ UNCHANGED <<updateArgs, processVars, utilVars, loaderVars>>

\* updateDocument(recordId, newDocument) from a result row
UpdateDocument(recordId, newDocument) ==
    /\ pc = "idle"
    /\ results' = updateDocument(results, recordId, newDocument)
    /\ updateArgs' = Some([recordId |-> recordId, newDocument |-> newDocument])
    /\ UNCHANGED <<bankRecords, supplierRecords, options, availableSuppliers,
                   matchedRecords, poolAtCall, matchLog, result, pc, stats>>
    /\ UNCHANGED <<processVars, utilVars, loaderVars>>

Next ==
    \/ MapCallback
    \/ Return
    \/ Publish
    \/ \E recordId \in 1..(MaxBank + 1), newDocument \in NewDocuments :
           UpdateDocument(recordId, newDocument)

Spec == Init /\ [][Next]_vars


-----------------------------------------------------------------------------
(* performReconciliation as process calls it: the whole call at once. *)

\* bankRecords.map(callback) over the shrinking pool, from the records done on
RECURSIVE MapRecords(_, _, _, _)
MapRecords(bank, pool, opts, done) ==
    IF Len(done) >= Len(bank) THEN done
    ELSE
        LET bankRecord == bank[Len(done) + 1]
            found == findSupplierMatch(bankRecord, pool, opts)
        IN  MapRecords(bank, PoolAfter(pool, found), opts,
                       MapAppend(done, MatchedRecord(bankRecord, found)))

performReconciliation(bank, suppliers, given) ==
    LET opts == MergeOptions(DEFAULT_OPTIONS, given)
        records == MapRecords(bank, suppliers, opts, <<>>)
    IN  [records |-> records,
         stats   |-> calculateStats(records, Len(suppliers))]

-----------------------------------------------------------------------------
(* Uploaded files and their parsers. A message is the sequence of the pieces
   its template string is made of. *)

MaxFiles == 2
MaxCalls == 2
MaxRemovals == 1

\* What a parser call settles to: a rejection with a message, or records.
\* parsed logs the names of the files the call has handed to a file parser.
Threw(message) ==
    [threw |-> TRUE, message |-> message, records |-> <<>>, parsed |-> <<>>]
Resolved(records) ==
    [threw |-> FALSE, message |-> <<>>, records |-> records, parsed |-> <<>>]

\* An uploaded file. content is what is in the file: "text" (rows a parser
\* accepts), "image" (nothing a parser accepts: a scanned page, an empty
\* sheet) or "corrupt" (the file cannot be read). bankType "" is no bankType.
UploadedFile(id, name, bankType, isExcel, selectedSheets, content) ==
    [id             |-> id,
     name           |-> name,
     bankType       |-> bankType,
     isExcel        |-> isExcel,
     selectedSheets |-> selectedSheets,
     content        |-> content]

\* extractTextFromPdf and a statement extractor on the text
parsePdfBankFile(file) ==
    CASE file.content = "corrupt" -> Threw(<<"Invalid PDF structure">>)
      [] file.content = "image"   -> Resolved(<<>>)
      [] OTHER -> Resolved(<<BankRecord(file.id, D10Jan, D10Jan, -148290)>>)

parseCaixabankExcelFile(file) ==
    CASE file.content = "corrupt" ->
            Threw(<<"Error al leer el archivo Excel">>)
      [] file.content = "image"   -> Resolved(<<>>)
      [] OTHER -> Resolved(<<BankRecord(file.id, D10Jan, D10Jan, -148290)>>)

parseBankFile(file, bankType) ==
    IF file.isExcel
    THEN IF bankType # "caixabank"
         THEN Threw(<<"El banco ", bankType,
                      " no soporta archivos Excel. Por favor, use un archivo PDF.">>)
         ELSE parseCaixabankExcelFile(file)
    ELSE parsePdfBankFile(file)

\* `Error al procesar ${name}: ${message}`
ErrorAlProcesar(name, message) ==
    <<"Error al procesar ", name, ": ">> \o message

\* One turn of the loop of parseBankFiles
parseBankFilesTurn(uploadedFile) ==
    LET bankType == IF uploadedFile.bankType = "" THEN "bbva"
                    ELSE uploadedFile.bankType
        parsed == parseBankFile(uploadedFile, bankType)
    IN  IF parsed.threw
        THEN Threw(ErrorAlProcesar(uploadedFile.name, parsed.message))
        ELSE parsed

\* The loop of parseBankFiles from file i on
RECURSIVE parseBankFilesFrom(_, _, _, _)
parseBankFilesFrom(files, i, allRecords, parsed) ==
    IF i > Len(files)
    THEN [Resolved(allRecords) EXCEPT !.parsed = parsed]
    ELSE
        LET turn == parseBankFilesTurn(files[i])
            names == Append(parsed, files[i].name)
        IN  IF turn.threw
            THEN [turn EXCEPT !.parsed = names]
            ELSE parseBankFilesFrom(files, i + 1,
                                    allRecords \o turn.records, names)

parseBankFiles(files) == parseBankFilesFrom(files, 1, <<>>, <<>>)

parseSupplierFile(file) ==
    CASE file.content = "corrupt" -> Threw(<<"Invalid PDF structure">>)
      [] file.content = "image"   -> Resolved(<<>>)
      [] OTHER ->
            Resolved(<<SupplierRecord(file.id, file.id, D10Jan, 148290)>>)

\* One turn of the loop of parseSupplierFiles
parseSupplierFilesTurn(file) ==
    LET parsed == parseSupplierFile(file)
    IN  IF parsed.threw
        THEN Threw(ErrorAlProcesar(file.name, parsed.message))
        ELSE parsed

\* The loop of parseSupplierFiles from file i on
RECURSIVE parseSupplierFilesFrom(_, _, _, _)
parseSupplierFilesFrom(files, i, allRecords, parsed) ==
    IF i > Len(files)
    THEN [Resolved(allRecords) EXCEPT !.parsed = parsed]
    ELSE
        LET turn == parseSupplierFilesTurn(files[i])
            names == Append(parsed, files[i].name)
        IN  IF turn.threw
            THEN [turn EXCEPT !.parsed = names]
            ELSE parseSupplierFilesFrom(files, i + 1,
                                        allRecords \o turn.records, names)

parseSupplierFiles(files) == parseSupplierFilesFrom(files, 1, <<>>, <<>>)

\* The promise of parseSupplierExcel for one file
parseSupplierExcelSettled(file, selectedSheets) ==
    CASE file.content = "corrupt" ->
            Threw(<<"Error al leer el archivo Excel">>)
      [] file.content = "image"   -> Resolved(<<>>)
      [] OTHER ->
            Resolved(<<SupplierRecord(file.id, file.id, D10Jan, 148290)>>)

parseSupplierExcel(file, selectedSheets) ==
    [parseSupplierExcelSettled(file, selectedSheets) EXCEPT
        !.parsed = <<file.name>>]


-----------------------------------------------------------------------------
(* hooks/useReconciliation.ts: process. An invocation is the record of its
   locals; parsed and skipped log the names of the files it has had parsed
   and has passed over. *)

EmptyInputMessage == <<"Por favor, sube archivos de ambos tipos.">>

NoBankRecordsMessage ==
    <<"No se encontraron movimientos en los archivos bancarios. ",
      "Posibles causas: ",
      "1) Si es un PDF, puede ser una imagen escaneada sin texto seleccionable. ",
      "2) Si es un Excel, verifica que el formato sea el esperado (con columnas Fecha, Movimiento, Importe). ",
      "3) Verifica que has seleccionado el banco correcto para cada archivo. ",
      "4) Revisa la consola del navegador (F12) para ver más detalles del error.">>

NoSupplierRecordsMessage ==
    <<"No se encontraron registros en los archivos de Proveedores. ",
      "Verifica que: 1) Los PDFs sean válidos y no escaneados como imagen. ",
      "2) Los archivos Excel tengan hojas seleccionadas con datos válidos.">>

\* The locals of an invocation that is at its first await: parseBankFiles has
\* been called and awaits its first file.
StartInvocation(bankFiles, supplierFiles) ==
    [bankFiles          |-> bankFiles,
     supplierFiles      |-> supplierFiles,
     supplierPdfFiles   |-> SelectSeq(supplierFiles, LAMBDA f : ~f.isExcel),
     supplierExcelFiles |-> SelectSeq(supplierFiles, LAMBDA f : f.isExcel),
     phase              |-> "bank",
     i                  |-> 1,
     bankData           |-> <<>>,
     supplierPdfData    |-> <<>>,
     supplierExcelData  |-> <<>>,
     parsed             |-> <<>>,
     skipped            |-> <<>>,
     outcome            |-> "pending",
     message            |-> <<>>,
     reconciliation     |-> Null]

\* An invocation that returned at the check of its arguments.
RejectedInvocation(bankFiles, supplierFiles) ==
    [StartInvocation(bankFiles, supplierFiles) EXCEPT
        !.phase = "done", !.outcome = "rejected",
        !.message = EmptyInputMessage]

\* throw ... caught by the catch of process
Failed(inv, message) ==
    [inv EXCEPT !.phase = "done", !.outcome = "error", !.message = message]

\* From the combination of the supplier data to the end of the try block.
Finish(inv) ==
    LET bankData == inv.bankData
        supplierData == inv.supplierPdfData \o inv.supplierExcelData
    IN  IF Len(bankData) = 0 THEN Failed(inv, NoBankRecordsMessage)
        ELSE IF Len(supplierData) = 0
        THEN Failed(inv, NoSupplierRecordsMessage)
        ELSE [inv EXCEPT
                !.phase = "done",
                !.outcome = "success",
                !.reconciliation =
                    Some(performReconciliation(bankData, supplierData,
                                               NoOptions))]

\* On from a parser call that resolved, or that was not made: to the supplier
\* PDF files, to the first Excel file, to the next Excel file.
Proceed(inv) ==
    CASE inv.phase = "bank" -> [inv EXCEPT !.phase = "pdf"]
      [] inv.phase = "pdf" -> [inv EXCEPT !.phase = "excel", !.i = 1]
      [] OTHER -> [inv EXCEPT !.i = @ + 1]

\* What process does between two awaits: on to the next parser call, over the
\* Excel files without selected sheets (continue), or to the end. Stepped is
\* the invocation one test further on.
Stepped(inv) ==
    IF inv.phase = "excel"
    THEN [Proceed(inv) EXCEPT
            !.skipped = Append(@, inv.supplierExcelFiles[inv.i].name)]
    ELSE Proceed(inv)

\* The invocation is at an await: of parseBankFiles, of parseSupplierFiles
\* (called when there are PDF files), of parseSupplierExcel for file i.
AtAwait(inv) ==
    CASE inv.phase = "bank" -> TRUE
      [] inv.phase = "pdf" -> Len(inv.supplierPdfFiles) > 0
      [] inv.phase = "excel" ->
            /\ inv.i <= Len(inv.supplierExcelFiles)
            /\ Len(inv.supplierExcelFiles[inv.i].selectedSheets) # 0
      [] OTHER -> FALSE

\* The loop over the Excel files is over
AtEnd(inv) ==
    inv.phase = "excel" /\ inv.i > Len(inv.supplierExcelFiles)

RECURSIVE Advance(_)
Advance(inv) ==
    IF AtAwait(inv) \/ AtEnd(inv) THEN inv ELSE Advance(Stepped(inv))

\* What the awaited parser call settles to
Awaited(inv) ==
    CASE inv.phase = "bank" -> parseBankFiles(inv.bankFiles)
      [] inv.phase = "pdf" -> parseSupplierFiles(inv.supplierPdfFiles)
      [] OTHER ->
            parseSupplierExcel(inv.supplierExcelFiles[inv.i],
                               inv.supplierExcelFiles[inv.i].selectedSheets)

\* The awaited call settles: the invocation runs on to its next await or to
\* its end.
Settle(inv) ==
    LET settled == Awaited(inv)
        logged == [inv EXCEPT !.parsed = @ \o settled.parsed]
        pushed ==
            [logged EXCEPT
                !.bankData =
                    IF inv.phase = "bank" THEN settled.records ELSE @,
                !.supplierPdfData =
                    IF inv.phase = "pdf" THEN settled.records ELSE @,
                !.supplierExcelData =
                    IF inv.phase = "excel" THEN @ \o settled.records ELSE @]
        next == Advance(Proceed(pushed))
    IN  IF settled.threw THEN Failed(logged, settled.message)
        ELSE IF AtEnd(next) THEN Finish(next)
        ELSE next


-----------------------------------------------------------------------------
(* The state machine of process: the provider's uploads, overlapping process
   invocations, reset. *)

\* The files an operator can have uploaded.
BankFile(k, content) ==
    UploadedFile(k, "extracto" \o ToString(k) \o ".pdf", "bbva", FALSE, <<>>,
                 content)

SupplierFile(k, kind) ==
    CASE kind = "xlsx" ->
            UploadedFile(k, "cobros" \o ToString(k) \o ".xlsx", "", TRUE,
                         <<"Hoja1">>, "text")
      [] kind = "xlsx-corrupt" ->
            UploadedFile(k, "cobros" \o ToString(k) \o ".xlsx", "", TRUE,
                         <<"Hoja1">>, "corrupt")
      [] kind = "xlsx-unread" ->
            \* addFiles could not read the sheets: selectedSheets = []
            UploadedFile(k, "cobros" \o ToString(k) \o ".xlsx", "", TRUE,
                         <<>>, "corrupt")
      [] OTHER ->
            UploadedFile(k, "listado" \o ToString(k) \o ".pdf", "", FALSE,
                         <<>>, kind)

BankUploads ==
    ListsOf({"text", "image", "corrupt"}, MaxFiles, BankFile)

SupplierUploads ==
    ListsOf({"text", "corrupt", "xlsx", "xlsx-corrupt", "xlsx-unread"},
            MaxFiles, SupplierFile)

\* No performReconciliation call is under way on its own.
NoCall ==
    /\ bankRecords = <<>>
    /\ supplierRecords = <<>>
    /\ options = NoOptions
    /\ availableSuppliers = <<>>
    /\ matchedRecords = <<>>
    /\ poolAtCall = <<>>
    /\ matchLog = <<>>
    /\ result = Null
    /\ pc = "idle"
    /\ updateArgs = Null

\* The hook is mounted and files are uploaded.
ProcessInit ==
    /\ \/ /\ bankUpload \in BankUploads
          /\ supplierUpload = <<SupplierFile(1, "text")>>
       \/ /\ bankUpload = <<BankFile(1, "text")>>
          /\ supplierUpload \in SupplierUploads
    /\ results = <<>>
    /\ stats = Null
    /\ isProcessing = FALSE
    /\ error = Null
    /\ invocations = <<>>
    /\ NoCall
    /\ NoUtil
    /\ NoLoad

processRejectsNoBankOnly(bankFiles, supplierFiles) ==
    Len(bankFiles) = 0

\* bankFiles.length === 0 || supplierFiles.length === 0
processRejects(bankFiles, supplierFiles) ==
    Len(bankFiles) = 0 \/ Len(supplierFiles) = 0

\* startReconciliation: process(bankUpload.files, supplierUpload.files), up to
\* the return of the empty check or to the first await.
process ==
    /\ Len(invocations) < MaxCalls
    /\ IF processRejects(bankUpload, supplierUpload)
       THEN /\ error' = Some(EmptyInputMessage)
            /\ invocations' =
                  Append(invocations,
                         RejectedInvocation(bankUpload, supplierUpload))
            /\ UNCHANGED <<isProcessing, results, stats>>
       ELSE /\ isProcessing' = TRUE
            /\ error' = Null
            /\ results' = <<>>
            /\ stats' = Null
            /\ invocations' =
                  Append(invocations,
                         StartInvocation(bankUpload, supplierUpload))
    /\ UNCHANGED <<bankUpload, supplierUpload, callVars, utilVars,
                   loaderVars>>

setResultsPartial(prevResults, inv) ==
    IF inv.outcome = "success" THEN Val(inv.reconciliation).records
    ELSE IF inv.outcome = "error"
    THEN performReconciliation(inv.bankData,
                               inv.supplierPdfData \o inv.supplierExcelData,
                               NoOptions).records
    ELSE prevResults

\* setResults(result.records), reached on success only
setResults(prevResults, inv) ==
    IF inv.outcome = "success" THEN Val(inv.reconciliation).records
    ELSE prevResults

\* setStats(result.stats), reached on success only
setStats(prevStats, inv) ==
    IF inv.outcome = "success" THEN Some(Val(inv.reconciliation).stats)
    ELSE prevStats

\* setError(err.message) in the catch
setError(prevError, inv) ==
    IF inv.outcome = "error" THEN Some(inv.message) ELSE prevError

setIsProcessingOnSuccess(prev, inv) ==
    IF inv.outcome = "success" THEN FALSE ELSE prev

\* setIsProcessing(false) in the finally
setIsProcessing(prev, inv) ==
    IF inv.outcome \in {"error", "success"} THEN FALSE ELSE prev

\* The parse that invocation c awaits settles, and the invocation runs on to
\* its next await or through its end.
Settled(c) ==
    /\ c \in 1..Len(invocations)
    /\ invocations[c].outcome = "pending"
    /\ LET inv == Settle(invocations[c])
       IN  /\ invocations' = [invocations EXCEPT ![c] = inv]
           /\ results' = setResults(results, inv)
           /\ stats' = setStats(stats, inv)
           /\ error' = setError(error, inv)
           /\ isProcessing' = setIsProcessing(isProcessing, inv)
    /\ UNCHANGED <<bankUpload, supplierUpload, callVars, utilVars,
                   loaderVars>>

\* prev.filter(f => f.id !== fileId)
removeFile(prev, fileId) == SelectSeq(prev, LAMBDA f : f.id # fileId)

\* Files taken out of the uploads since the first process call. Before the
\* first call, taking files out leads to uploads that ProcessInit starts from.
Removals ==
    IF Len(invocations) = 0 THEN MaxRemovals
    ELSE (Len(invocations[1].bankFiles) - Len(bankUpload))
            + (Len(invocations[1].supplierFiles) - Len(supplierUpload))

removeBankFile(fileId) ==
    /\ Removals < MaxRemovals
    /\ bankUpload' = removeFile(bankUpload, fileId)
    /\ bankUpload' # bankUpload
    /\ UNCHANGED <<supplierUpload, results, stats, isProcessing, error,
                   invocations, callVars, utilVars, loaderVars>>

\* setFiles([]) of the supplier uploads
clearSupplierFiles ==
    /\ Removals < MaxRemovals
    /\ supplierUpload # <<>>
    /\ supplierUpload' = <<>>
    /\ UNCHANGED <<bankUpload, results, stats, isProcessing, error,
                   invocations, callVars, utilVars, loaderVars>>

reset ==
    /\ results' = <<>>
    /\ stats' = Null
    /\ error' = Null
    /\ UNCHANGED <<isProcessing, bankUpload, supplierUpload, invocations,
                   callVars, utilVars, loaderVars>>

ProcessNext ==
    \/ process
    \/ \E c \in 1..MaxCalls : Settled(c)
    \/ \E fileId \in 1..MaxFiles : removeBankFile(fileId)
    \/ clearSupplierFiles
    \/ reset

ProcessSpec == ProcessInit /\ [][ProcessNext]_vars

\* Weak fairness of Settled(c), WF_vars(Settled(c)), written out: Settled(c)
\* is enabled exactly while invocation c waits for a parse, so either c is
\* not waiting infinitely often or Settled(c) steps come infinitely often.
SettledFairly(c) ==
    \/ []<>(~(c \in 1..Len(invocations)
              /\ invocations[c].outcome = "pending"))
    \/ []<><<Settled(c)>>_vars

\* Every promise process awaits settles: the parse of a file reads the file
\* and resolves or rejects, and the event loop then runs the continuation of
\* the invocation that waits for it.
ProcessFairSpec ==
    /\ ProcessInit
    /\ [][ProcessNext]_vars
    /\ \A c \in 1..MaxCalls : SettledFairly(c)


-----------------------------------------------------------------------------
(* utils/currency.ts: parseCurrency. A string is the sequence of its
   characters; a number is the exact decimal num / 10^exp, or NaN. *)

Digits == {"0", "1", "2", "3", "4", "5", "6", "7", "8", "9"}

DigitChars == <<"0", "1", "2", "3", "4", "5", "6", "7", "8", "9">>

DigitValue(ch) == (CHOOSE i \in 1..10 : DigitChars[i] = ch) - 1

RECURSIVE Pow10(_)
Pow10(n) == IF n = 0 THEN 1 ELSE 10 * Pow10(n - 1)

Number(num, exp) == [nan |-> FALSE, num |-> num, exp |-> exp]

NaN == [nan |-> TRUE, num |-> 0, exp |-> 0]

Zero == Number(0, 0)

\* x === y on two numbers
NumEq(x, y) ==
    /\ ~x.nan
    /\ ~y.nan
    /\ x.num * Pow10(y.exp) = y.num * Pow10(x.exp)

\* \s of a regular expression, and what trim() removes
Whitespace == {" "}

\* [€$£¥\s]
CurrencySymbolsAndSpace == {"$"} \cup Whitespace

RECURSIVE trimStart(_)
trimStart(str) ==
    IF str # <<>> /\ Head(str) \in Whitespace
    THEN trimStart(Tail(str))
    ELSE str

RECURSIVE trimEnd(_)
trimEnd(str) ==
    IF str # <<>> /\ str[Len(str)] \in Whitespace
    THEN trimEnd(SubSeq(str, 1, Len(str) - 1))
    ELSE str

trim(str) == trimEnd(trimStart(str))

\* str.replace(/[chars]/g, '')
removeAll(str, chars) == SelectSeq(str, LAMBDA ch : ch \notin chars)

\* str.replace(/[^chars]/g, '')
keepOnly(str, chars) == SelectSeq(str, LAMBDA ch : ch \in chars)

includes(str, ch) == \E i \in 1..Len(str) : str[i] = ch

\* positions are counted from 0 as in JS; -1 when ch does not occur
indexOf(str, ch) ==
    IF includes(str, ch)
    THEN (CHOOSE i \in 1..Len(str) :
              str[i] = ch /\ \A j \in 1..(i - 1) : str[j] # ch) - 1
    ELSE -1

lastIndexOf(str, ch) ==
    IF includes(str, ch)
    THEN (CHOOSE i \in 1..Len(str) :
              str[i] = ch /\ \A j \in (i + 1)..Len(str) : str[j] # ch) - 1
    ELSE -1

\* str.replace(ch, by) with a string pattern: the first occurrence only
replaceFirst(str, ch, by) ==
    IF includes(str, ch)
    THEN [str EXCEPT ![indexOf(str, ch) + 1] = by]
    ELSE str

RECURSIVE DigitsPrefix(_)
DigitsPrefix(str) ==
    IF str # <<>> /\ Head(str) \in Digits
    THEN <<Head(str)>> \o DigitsPrefix(Tail(str))
    ELSE <<>>

RECURSIVE DigitsValue(_)
DigitsValue(ds) ==
    IF ds = <<>>
    THEN 0
    ELSE DigitsValue(SubSeq(ds, 1, Len(ds) - 1)) * 10 + DigitValue(ds[Len(ds)])

\* parseFloat on a string of digits, '.' and '-': the longest prefix that is a
\* decimal literal (sign, digits, '.', digits), NaN when there is none
parseFloat(str) ==
    LET negative == str # <<>> /\ Head(str) = "-"
        unsigned == IF negative THEN Tail(str) ELSE str
        intDigits == DigitsPrefix(unsigned)
        rest == SubSeq(unsigned, Len(intDigits) + 1, Len(unsigned))
        fracDigits == IF rest # <<>> /\ Head(rest) = "."
                      THEN DigitsPrefix(Tail(rest))
                      ELSE <<>>
        magnitude == DigitsValue(intDigits \o fracDigits)
    IN  IF intDigits = <<>> /\ fracDigits = <<>>
        THEN NaN
        ELSE Number(IF negative THEN -magnitude ELSE magnitude, Len(fracDigits))

isAmericanAlways(lastDotPos, lastCommaPos) == TRUE

\* lastDotPos > lastCommaPos
isAmerican(lastDotPos, lastCommaPos) == lastDotPos > lastCommaPos

\* the format detection of parseCurrency, on the string without symbols
localized(cleanStr) ==
    LET hasComma == includes(cleanStr, ",")
        hasDot == includes(cleanStr, ".")
    IN  IF hasComma /\ hasDot
        THEN IF isAmerican(lastIndexOf(cleanStr, "."),
                           lastIndexOf(cleanStr, ","))
             THEN removeAll(cleanStr, {","})
             ELSE replaceFirst(removeAll(cleanStr, {"."}), ",", ".")
        ELSE IF hasComma /\ ~hasDot
             THEN replaceFirst(cleanStr, ",", ".")
             ELSE cleanStr

\* str is null (or undefined), or Some string
parseCurrency(str) ==
    IF IsNull(str) \/ Val(str) = <<>>
    THEN Zero
    ELSE LET parsed == parseFloat(keepOnly(
                 localized(removeAll(trim(Val(str)), CurrencySymbolsAndSpace)),
                 Digits \cup {".", "-"}))
         IN  IF parsed.nan THEN Zero ELSE parsed

-----------------------------------------------------------------------------
(* normalizeDate of services/excel/supplierExcelParser.ts and of
   services/pdf/santanderParser.ts, on strings as sequences of characters. *)

UpperCase ==
    <<"A", "B", "C", "D", "E", "F", "G", "H", "I", "J", "K", "L", "M", "N",
      "O", "P", "Q", "R", "S", "T", "U", "V", "W", "X", "Y", "Z">>

LowerCase ==
    <<"a", "b", "c", "d", "e", "f", "g", "h", "i", "j", "k", "l", "m", "n",
      "o", "p", "q", "r", "s", "t", "u", "v", "w", "x", "y", "z">>

\* [a-zá-ú] with the i flag
Letters ==
    { UpperCase[i] : i \in 1..26 } \cup { LowerCase[i] : i \in 1..26 }
        \cup {"á", "ç", "é", "í", "ó", "ú"}

toLowerCase(str) ==
    [ i \in 1..Len(str) |->
        IF \E k \in 1..26 : UpperCase[k] = str[i]
        THEN LowerCase[CHOOSE k \in 1..26 : UpperCase[k] = str[i]]
        ELSE str[i] ]

\* /^\d+$/ with min..max repetitions
AllDigits(str, min, max) ==
    /\ Len(str) \in min..max
    /\ \A i \in 1..Len(str) : str[i] \in Digits

\* /^[a-zá-ú]+$/i
AllLetters(str) ==
    /\ str # <<>>
    /\ \A i \in 1..Len(str) : str[i] \in Letters

RECURSIVE split(_, _)
split(str, sep) ==
    IF includes(str, sep)
    THEN <<SubSeq(str, 1, indexOf(str, sep))>>
             \o split(SubSeq(str, indexOf(str, sep) + 2, Len(str)), sep)
    ELSE <<str>>

RECURSIVE join(_, _)
join(parts, sep) ==
    IF Len(parts) = 0 THEN <<>>
    ELSE IF Len(parts) = 1 THEN parts[1]
    ELSE parts[1] \o <<sep>> \o join(Tail(parts), sep)

\* str.padStart(2, '0')
padStart(str) == IF Len(str) < 2 THEN <<"0">> \o str ELSE str

\* str.replace(/ch/g, by)
replaceEach(str, ch, by) ==
    [ i \in 1..Len(str) |-> IF str[i] = ch THEN by ELSE str[i] ]

\* parseInt(str, 10) on a string without sign and spaces; NaN without a digit
parseInt(str) ==
    IF DigitsPrefix(str) = <<>> THEN NaN
    ELSE Number(DigitsValue(DigitsPrefix(str)), 0)

\* String(n).padStart(2, '0') and String(year) of a natural number
RECURSIVE DigitsOf(_)
DigitsOf(n) ==
    IF n < 10 THEN <<DigitChars[n + 1]>>
    ELSE DigitsOf(n \div 10) \o <<DigitChars[(n % 10) + 1]>>

monthMap ==
    { <<<<"e", "n", "e">>, <<"0", "1">>>>,
      <<<<"e", "n", "e", "r", "o">>, <<"0", "1">>>>,
      <<<<"g", "e", "n">>, <<"0", "1">>>>,
      <<<<"g", "e", "n", "e", "r">>, <<"0", "1">>>>,
      <<<<"j", "a", "n">>, <<"0", "1">>>>,
      <<<<"f", "e", "b">>, <<"0", "2">>>>,
      <<<<"f", "e", "b", "r", "e", "r", "o">>, <<"0", "2">>>>,
      <<<<"f", "e", "b", "r", "e", "r">>, <<"0", "2">>>>,
      <<<<"m", "a", "r">>, <<"0", "3">>>>,
      <<<<"m", "a", "r", "z", "o">>, <<"0", "3">>>>,
      <<<<"m", "a", "r", "ç">>, <<"0", "3">>>>,
      <<<<"a", "b", "r">>, <<"0", "4">>>>,
      <<<<"a", "b", "r", "i", "l">>, <<"0", "4">>>>,
      <<<<"a", "p", "r">>, <<"0", "4">>>>,
      <<<<"m", "a", "y">>, <<"0", "5">>>>,
      <<<<"m", "a", "y", "o">>, <<"0", "5">>>>,
      <<<<"m", "a", "i", "g">>, <<"0", "5">>>>,
      <<<<"j", "u", "n">>, <<"0", "6">>>>,
      <<<<"j", "u", "n", "i", "o">>, <<"0", "6">>>>,
      <<<<"j", "u", "n", "y">>, <<"0", "6">>>>,
      <<<<"j", "u", "l">>, <<"0", "7">>>>,
      <<<<"j", "u", "l", "i", "o">>, <<"0", "7">>>>,
      <<<<"j", "u", "l", "i", "o", "l">>, <<"0", "7">>>>,
      <<<<"a", "g", "o">>, <<"0", "8">>>>,
      <<<<"a", "g", "o", "s", "t", "o">>, <<"0", "8">>>>,
      <<<<"a", "g", "o", "s", "t">>, <<"0", "8">>>>,
      <<<<"a", "u", "g">>, <<"0", "8">>>>,
      <<<<"s", "e", "p">>, <<"0", "9">>>>,
      <<<<"s", "e", "p", "t", "i", "e", "m", "b", "r", "e">>, <<"0", "9">>>>,
      <<<<"s", "e", "t", "e", "m", "b", "r", "e">>, <<"0", "9">>>>,
      <<<<"s", "e", "p", "t">>, <<"0", "9">>>>,
      <<<<"o", "c", "t">>, <<"1", "0">>>>,
      <<<<"o", "c", "t", "u", "b", "r", "e">>, <<"1", "0">>>>,
      <<<<"n", "o", "v">>, <<"1", "1">>>>,
      <<<<"n", "o", "v", "i", "e", "m", "b", "r", "e">>, <<"1", "1">>>>,
      <<<<"n", "o", "v", "e", "m", "b", "r", "e">>, <<"1", "1">>>>,
      <<<<"d", "i", "c">>, <<"1", "2">>>>,
      <<<<"d", "i", "c", "i", "e", "m", "b", "r", "e">>, <<"1", "2">>>>,
      <<<<"d", "e", "s", "e", "m", "b", "r", "e">>, <<"1", "2">>>>,
      <<<<"d", "e", "c">>, <<"1", "2">>>> }

\* monthMap[monthName] || '01'
monthOf(monthName) ==
    IF \E entry \in monthMap : entry[1] = monthName
    THEN (CHOOSE entry \in monthMap : entry[1] = monthName)[2]
    ELSE <<"0", "1">>

\* `${day}/${month}/${year}`
DateString(day, month, year) == day \o <<"/">> \o month \o <<"/">> \o year

\* new Date((excelDate - 25569) * 86400 * 1000): getDate(), getMonth() + 1
\* and getFullYear() in a time zone east of Greenwich
serialDate(excelDate) ==
    LET civil == CHOOSE c \in [y : 1900..2100, m : 1..12, d : 1..31] :
                     /\ DaysFromCivil(c.y, c.m, c.d) = excelDate - 25569
                     /\ DaysFromCivil(c.y, c.m, c.d) < DaysFromCivil(
                            IF c.m = 12 THEN c.y + 1 ELSE c.y,
                            IF c.m = 12 THEN 1 ELSE c.m + 1, 1)
    IN  DateString(padStart(DigitsOf(civil.d)), padStart(DigitsOf(civil.m)),
                   DigitsOf(civil.y))

\* `20${yearShort}`
shortYear(yearShort) == <<"2", "0">> \o yearShort

\* supplierExcelParser.ts normalizeDate; dateStr is undefined (Null) or Some
\* string (a number cell is the string of its digits)
supplierExcelNormalizeDate(dateStr) ==
    IF IsNull(dateStr) \/ Val(dateStr) = <<>>
    THEN <<>>
    ELSE LET str == trim(Val(dateStr))
             dashed == split(str, "-")
             slashed == split(str, "/")
         IN  IF /\ Len(dashed) = 3
                /\ AllDigits(dashed[1], 1, 2)
                /\ AllLetters(dashed[2])
                /\ AllDigits(dashed[3], 2, 4)
             THEN DateString(padStart(dashed[1]),
                             monthOf(toLowerCase(dashed[2])),
                             IF Len(dashed[3]) = 2
                             THEN shortYear(dashed[3])
                             ELSE dashed[3])
             ELSE IF /\ Len(slashed) = 3
                     /\ AllDigits(slashed[1], 1, 2)
                     /\ AllDigits(slashed[2], 1, 2)
                     /\ AllDigits(slashed[3], 4, 4)
             THEN DateString(padStart(slashed[2]), padStart(slashed[1]),
                             slashed[3])
             ELSE IF /\ Len(slashed) = 3
                     /\ AllDigits(slashed[1], 1, 2)
                     /\ AllDigits(slashed[2], 1, 2)
                     /\ AllDigits(slashed[3], 2, 2)
             THEN DateString(padStart(slashed[2]), padStart(slashed[1]),
                             shortYear(slashed[3]))
             ELSE IF AllDigits(str, 1, Len(str)) /\ DigitsValue(str) > 1000
             THEN serialDate(DigitsValue(str))
             ELSE str

\* santanderParser.ts normalizeDate
santanderNormalizeDate(date) ==
    LET normalized == replaceEach(date, "-", "/")
        parts == split(normalized, "/")
    IN  IF Len(parts) = 3 /\ Len(parts[3]) = 2
        THEN join(<<parts[1], parts[2],
                    IF ~parseInt(parts[3]).nan /\ parseInt(parts[3]).num < 50
                    THEN <<"2", "0">> \o parts[3]
                    ELSE <<"1", "9">> \o parts[3]>>, "/")
        ELSE normalized

-----------------------------------------------------------------------------
(* The statement extractors of services/pdf. The text of a document is taken
   as what matchAll finds in it: for each pattern the list of its matches, a
   match being the list of its captured groups (JS match[1] is group 1, and a
   group that did not take part is the empty string). The pattern field of a
   record stands for the console.log line that names the pattern. *)

\* str.substring(0, n)
substring(str, n) == SubSeq(str, 1, IF Len(str) < n THEN Len(str) ELSE n)

\* str.replace(/\s+/g, ' '): a run of white space becomes one space
RECURSIVE collapseSpaces(_)
collapseSpaces(str) ==
    IF str = <<>> THEN <<>>
    ELSE IF Head(str) \in Whitespace
    THEN <<" ">> \o collapseSpaces(trimStart(str))
    ELSE <<Head(str)>> \o collapseSpaces(Tail(str))

\* santanderParser.ts cleanConcept
cleanConcept(concept) == trim(collapseSpaces(concept))

\* str.includes(word)
includesText(str, word) ==
    \E i \in 0..(Len(str) - Len(word)) :
        SubSeq(str, i + 1, i + Len(word)) = word

invalidKeywords ==
    { <<"f", "e", "c", "h", "a">>,
      <<"c", "o", "n", "c", "e", "p", "t", "o">>,
      <<"i", "m", "p", "o", "r", "t", "e">>,
      <<"s", "a", "l", "d", "o">>,
      <<"d", "e", "b", "e">>,
      <<"h", "a", "b", "e", "r">>,
      <<"o", "p", "e", "r", "a", "c", "i", "ó", "n">>,
      <<"v", "a", "l", "o", "r">>,
      <<"d", "e", "s", "c", "r", "i", "p", "c", "i", "ó", "n">>,
      <<"m", "o", "v", "i", "m", "i", "e", "n", "t", "o">>,
      <<"p", "á", "g", "i", "n", "a">>,
      <<"e", "x", "t", "r", "a", "c", "t", "o">>,
      <<"c", "u", "e", "n", "t", "a">>,
      <<"t", "i", "t", "u", "l", "a", "r">>,
      <<"i", "b", "a", "n">> }

\* santanderParser.ts isValidConcept
isValidConcept(concept) ==
    /\ Len(concept) >= 3
    /\ ~(Len(concept) < 30 /\ toLowerCase(concept) \in invalidKeywords)

headerKeywords ==
    { <<"f", "e", "c", "h", "a">>,
      <<"c", "o", "n", "c", "e", "p", "t", "o">>,
      <<"i", "m", "p", "o", "r", "t", "e">>,
      <<"s", "a", "l", "d", "o">>,
      <<"d", "e", "b", "e">>,
      <<"h", "a", "b", "e", "r">>,
      <<"o", "p", "e", "r", "a", "c", "i", "ó", "n">>,
      <<"v", "a", "l", "o", "r">>,
      <<"d", "e", "s", "c", "r", "i", "p", "c", "i", "ó", "n">>,
      <<"m", "o", "v", "i", "m", "i", "e", "n", "t", "o">> }

\* sabadellParser.ts isHeaderText
isHeaderText(text) ==
    \E keyword \in headerKeywords :
        includesText(toLowerCase(text), keyword) /\ Len(text) < 30

\* `${a}-${b}-${c}-${d}`
Key4(a, b, c, d) == a \o <<"-">> \o b \o <<"-">> \o c \o <<"-">> \o d

\* `${a}-${b}-${c}`
Key3(a, b, c) == a \o <<"-">> \o b \o <<"-">> \o c

\* a BankRecord as the extractors build it, but for its random id and its
\* sourceFile
StatementRecord(fContable, fValor, concepto, importeRaw, saldoRaw, pattern) ==
    [fContable |-> fContable,
     fValor    |-> fValor,
     concepto  |-> concepto,
     importeRaw |-> importeRaw,
     importe   |-> parseCurrency(Some(importeRaw)),
     saldo     |-> IF saldoRaw = <<>> THEN Null
                   ELSE Some(parseCurrency(Some(saldoRaw))),
     pattern   |-> pattern]

\* what a pass over the matches of one pattern has built
Pass(records, seenEntries) == [records |-> records, seenEntries |-> seenEntries]

\* santanderParser.ts extractMovementsFromText, the loop over the blocks:
\* groups concepto, importe, saldo, fecha contable, fecha valor
RECURSIVE santanderBlocks(_, _, _)
santanderBlocks(matches, i, pass) ==
    IF i > Len(matches) THEN pass
    ELSE
        LET match == matches[i]
            fContable == santanderNormalizeDate(match[4])
            fValor == santanderNormalizeDate(match[5])
            concepto == cleanConcept(match[1])
            uniqueKey == Key4(fContable, fValor, substring(concepto, 30),
                              match[2])
            kept == uniqueKey \notin pass.seenEntries
                        /\ isValidConcept(concepto)
        IN  santanderBlocks(matches, i + 1,
                IF kept
                THEN Pass(Append(pass.records,
                                 StatementRecord(fContable, fValor, concepto,
                                                 match[2], match[3],
                                                 "Match")),
                          pass.seenEntries \cup {uniqueKey})
                ELSE pass)

\* santanderParser.ts extractAlternativeFormat: groups fecha contable, fecha
\* valor, concepto, importe, saldo
RECURSIVE extractAlternativeFormat(_, _, _)
extractAlternativeFormat(matches, i, pass) ==
    IF i > Len(matches) THEN pass
    ELSE
        LET match == matches[i]
            fContable == santanderNormalizeDate(match[1])
            fValor == santanderNormalizeDate(match[2])
            concepto == cleanConcept(match[3])
            uniqueKey == Key4(fContable, fValor, substring(concepto, 30),
                              match[4])
            kept == uniqueKey \notin pass.seenEntries
                        /\ isValidConcept(concepto)
        IN  extractAlternativeFormat(matches, i + 1,
                IF kept
                THEN Pass(Append(pass.records,
                                 StatementRecord(fContable, fValor, concepto,
                                                 match[4], match[5],
                                                 "Match (alt)")),
                          pass.seenEntries \cup {uniqueKey})
                ELSE pass)

santanderFallbackAlways(records) == TRUE

\* if (records.length === 0)
santanderFallback(records) == Len(records) = 0

\* santanderParser.ts extractMovementsFromText; found[1] are the blocks after
\* "F. Valor" that match the movement pattern, found[2] the matches of the
\* alternative pattern. passes lists the patterns that were run.
santanderExtractMovementsFromText(found) ==
    LET blocks == santanderBlocks(found[1], 1, Pass(<<>>, {}))
    IN  IF santanderFallback(blocks.records)
        THEN [records |-> blocks.records \o extractAlternativeFormat(
                              found[2], 1,
                              Pass(<<>>, blocks.seenEntries)).records,
              passes  |-> <<"blocks", "alternative">>]
        ELSE [records |-> blocks.records, passes |-> <<"blocks">>]

\* pdfLoader.ts and sabadellParser.ts normalizeDate: date.replace(/-/g, '/')
slashDate(date) == replaceEach(date, "-", "/")

\* pdfLoader.ts extractMovementsFromText, the loop over the matches of
\* the two-date pattern: groups fecha contable, fecha valor, concepto, importe
RECURSIVE caixabankTwoDates(_, _, _)
caixabankTwoDates(matches, i, pass) ==
    IF i > Len(matches) THEN pass
    ELSE
        LET match == matches[i]
            fContable == slashDate(match[1])
            fValor == slashDate(match[2])
            concepto == trim(match[3])
            uniqueKey == Key4(fContable, fValor, substring(concepto, 30),
                              match[4])
            kept == /\ uniqueKey \notin pass.seenEntries
                    /\ Len(concepto) > 2
        IN  caixabankTwoDates(matches, i + 1,
                IF kept
                THEN Pass(Append(pass.records,
                                 StatementRecord(fContable, fValor, concepto,
                                                 match[4], <<>>,
                                                 "Match (2 fechas)")),
                          pass.seenEntries \cup {uniqueKey})
                ELSE pass)

\* pdfLoader.ts extractMovementsFromText, the loop over the matches of
\* the one-date pattern: groups fecha, concepto, importe, saldo
RECURSIVE caixabankOneDate(_, _, _)
caixabankOneDate(matches, i, pass) ==
    IF i > Len(matches) THEN pass
    ELSE
        LET match == matches[i]
            fecha == slashDate(match[1])
            concepto == trim(match[2])
            uniqueKey == Key3(fecha, substring(concepto, 30), match[3])
            kept == /\ uniqueKey \notin pass.seenEntries
                    /\ Len(concepto) > 2
        IN  caixabankOneDate(matches, i + 1,
                IF kept
                THEN Pass(Append(pass.records,
                                 StatementRecord(fecha, fecha, concepto,
                                                 match[3], match[4],
                                                 "Match (1 fecha)")),
                          pass.seenEntries \cup {uniqueKey})
                ELSE pass)

caixabankFallbackAlways(records) == TRUE

\* if (records.length === 0)
caixabankFallback(records) == Len(records) = 0

\* pdfLoader.ts extractMovementsFromText; found[1] are the matches of the
\* two-date pattern, found[2] those of the one-date pattern.
caixabankExtractMovementsFromText(found) ==
    LET first == caixabankTwoDates(found[1], 1, Pass(<<>>, {}))
    IN  IF caixabankFallback(first.records)
        THEN [records |-> caixabankOneDate(found[2], 1, first).records,
              passes  |-> <<"2 fechas", "1 fecha">>]
        ELSE [records |-> first.records, passes |-> <<"2 fechas">>]

\* sabadellParser.ts extractMovementsFromText, the loop over the matches of
\* the two-date pattern: groups fecha contable, fecha valor, concepto, importe, saldo
RECURSIVE sabadellTwoDates(_, _, _)
sabadellTwoDates(matches, i, pass) ==
    IF i > Len(matches) THEN pass
    ELSE
        LET match == matches[i]
            fContable == slashDate(match[1])
            fValor == slashDate(match[2])
            concepto == trim(match[3])
            uniqueKey == Key4(fContable, fValor, substring(concepto, 30),
                              match[4])
            kept == /\ uniqueKey \notin pass.seenEntries
                    /\ Len(concepto) > 2
                    /\ ~isHeaderText(concepto)
        IN  sabadellTwoDates(matches, i + 1,
                IF kept
                THEN Pass(Append(pass.records,
                                 StatementRecord(fContable, fValor, concepto,
                                                 match[4], match[5],
                                                 "Match (2 fechas)")),
                          pass.seenEntries \cup {uniqueKey})
                ELSE pass)

\* sabadellParser.ts extractMovementsFromText, the loop over the matches of
\* the one-date pattern: groups fecha, concepto, importe
RECURSIVE sabadellOneDate(_, _, _)
sabadellOneDate(matches, i, pass) ==
    IF i > Len(matches) THEN pass
    ELSE
        LET match == matches[i]
            fecha == slashDate(match[1])
            concepto == trim(match[2])
            uniqueKey == Key3(fecha, substring(concepto, 30), match[3])
            kept == /\ uniqueKey \notin pass.seenEntries
                    /\ Len(concepto) > 2
                    /\ ~isHeaderText(concepto)
        IN  sabadellOneDate(matches, i + 1,
                IF kept
                THEN Pass(Append(pass.records,
                                 StatementRecord(fecha, fecha, concepto,
                                                 match[3], <<>>,
                                                 "Match (1 fecha)")),
                          pass.seenEntries \cup {uniqueKey})
                ELSE pass)

sabadellFallbackAlways(records) == TRUE

\* if (records.length === 0)
sabadellFallback(records) == Len(records) = 0

\* sabadellParser.ts extractMovementsFromText; found[1] are the matches of
\* the two-date pattern, found[2] those of the one-date pattern.
sabadellExtractMovementsFromText(found) ==
    LET first == sabadellTwoDates(found[1], 1, Pass(<<>>, {}))
    IN  IF sabadellFallback(first.records)
        THEN [records |-> sabadellOneDate(found[2], 1, first).records,
              passes  |-> <<"2 fechas", "1 fecha">>]
        ELSE [records |-> first.records, passes |-> <<"2 fechas">>]

\* bbvaParser.ts (src/unnamed/part_008) extractMovementsFromText, the loop over
\* the matches of pattern p; a two-date match has four groups, a one-date
\* match three. The key is added before the concept is looked at.
RECURSIVE bbvaMatches(_, _, _, _)
bbvaMatches(matches, i, pass, p) ==
    IF i > Len(matches) THEN pass
    ELSE
        LET match == matches[i]
            hasTwoDates == Len(match) + 1 >= 5
            fContable == match[1]
            fValor == IF hasTwoDates THEN match[2] ELSE match[1]
            concepto == IF hasTwoDates THEN match[3] ELSE match[2]
            importeRaw == IF hasTwoDates THEN match[4] ELSE match[3]
            uniqueKey == Key3(fContable, fValor, importeRaw)
        IN  bbvaMatches(matches, i + 1,
                IF uniqueKey \in pass.seenEntries
                THEN pass
                ELSE Pass(IF Len(trim(concepto)) > 1
                          THEN Append(pass.records,
                                      StatementRecord(fContable, fValor,
                                                      trim(concepto),
                                                      importeRaw, <<>>, p))
                          ELSE pass.records,
                          pass.seenEntries \cup {uniqueKey}),
                p)

\* for (const pattern of BBVA_PATTERNS)
RECURSIVE bbvaPatterns(_, _, _)
bbvaPatterns(found, p, pass) ==
    IF p > Len(found) THEN pass
    ELSE bbvaPatterns(found, p + 1, bbvaMatches(found[p], 1, pass, p))

\* bbvaParser.ts extractMovementsFromText; found[p] are the matches of
\* BBVA_PATTERNS[p - 1]
bbvaExtractMovementsFromText(found) ==
    [records |-> bbvaPatterns(found, 1, Pass(<<>>, {})).records,
     passes  |-> [p \in 1..Len(found) |-> p]]

\* a SupplierRecord as extractSupplierRecords builds it, but for its random id
\* and its sourceFile
LedgerRecord(fecha, codigo, nombre, documento, referencia, importeRaw, pattern) ==
    [fecha      |-> fecha,
     codigo     |-> codigo,
     nombre     |-> nombre,
     documento  |-> documento,
     referencia |-> referencia,
     importeRaw |-> importeRaw,
     importe    |-> parseCurrency(Some(importeRaw)),
     pattern    |-> pattern]

\* supplierParser.ts extractSupplierRecords, the loop over the matches of
\* pattern patternIndex + 1: groups fecha, codigo, nombre, documento,
\* referencia (patterns 1 to 3 only), importe
RECURSIVE supplierMatches(_, _, _, _)
supplierMatches(matches, i, pass, pattern) ==
    IF i > Len(matches) THEN pass
    ELSE
        LET match == matches[i]
            hasReferencia == Len(match) + 1 >= 7
            documento == match[4]
            referencia == IF hasReferencia THEN match[5] ELSE <<>>
            importeRaw == IF hasReferencia THEN match[6] ELSE match[5]
            uniqueKey == Key3(match[1], documento, importeRaw)
            kept == uniqueKey \notin pass.seenEntries /\ documento # <<>>
        IN  supplierMatches(matches, i + 1,
                IF kept
                THEN Pass(Append(pass.records,
                                 LedgerRecord(match[1], match[2],
                                              trim(match[3]), documento,
                                              referencia, importeRaw,
                                              pattern)),
                          pass.seenEntries \cup {uniqueKey})
                ELSE pass,
                pattern)

\* for (let patternIndex = 0; patternIndex < SUPPLIER_PATTERNS.length; ...)
RECURSIVE supplierPatterns(_, _, _)
supplierPatterns(found, pattern, pass) ==
    IF pattern > Len(found) THEN pass
    ELSE supplierPatterns(found, pattern + 1,
                          supplierMatches(found[pattern], 1, pass, pattern))

\* supplierParser.ts extractSupplierRecords; found[p] are the matches of
\* SUPPLIER_PATTERNS[p - 1]
extractSupplierRecords(found) ==
    [records |-> supplierPatterns(found, 1, Pass(<<>>, {})).records,
     passes  |-> [p \in 1..Len(found) |-> p]]

-----------------------------------------------------------------------------
(* The lines of the documents the extractors are run on. *)

\* the matches of one pattern run up to MaxMatches
MaxMatches == 2

\* a movement as a statement prints it
StatementLine(fContable, fValor, concepto, importeRaw, saldoRaw) ==
    [fContable |-> fContable, fValor |-> fValor, concepto |-> concepto,
     importeRaw |-> importeRaw, saldoRaw |-> saldoRaw]

\* a movement
LineLuz ==
    StatementLine(<<"1", "5", "/", "0", "1", "/", "2", "0", "2", "5">>,
                  <<"1", "6", "/", "0", "1", "/", "2", "0", "2", "5">>,
                  <<"R", "E", "C", "I", "B", "O", " ", "L", "U", "Z">>,
                  <<"-", "7", "3", ",", "1", "7">>,
                  <<"9", ".", "2", "5", "0", ",", "0", "6">>)

\* same dates and amount, another description
LineGas ==
    StatementLine(<<"1", "5", "/", "0", "1", "/", "2", "0", "2", "5">>,
                  <<"1", "6", "/", "0", "1", "/", "2", "0", "2", "5">>,
                  <<"R", "E", "C", "I", "B", "O", " ", "G", "A", "S">>,
                  <<"-", "7", "3", ",", "1", "7">>,
                  <<"9", ".", "1", "7", "6", ",", "8", "9">>)

\* the first movement printed again, with dashes and a wider gap
LineLuzAgain ==
    StatementLine(<<"1", "5", "-", "0", "1", "-", "2", "0", "2", "5">>,
                  <<"1", "6", "-", "0", "1", "-", "2", "0", "2", "5">>,
                  <<"R", "E", "C", "I", "B", "O", " ", " ", "L", "U", "Z">>,
                  <<"-", "7", "3", ",", "1", "7">>,
                  <<"9", ".", "2", "5", "0", ",", "0", "6">>)

\* two descriptions that differ after their first 30 characters
LineLong1 ==
    StatementLine(<<"1", "5", "/", "0", "1", "/", "2", "0", "2", "5">>,
                  <<"1", "6", "/", "0", "1", "/", "2", "0", "2", "5">>,
                  <<"T", "R", "A", "N", "S", "F", "E", "R", "E", "N", "C",
                    "I", "A", " ", "A", " ", "F", "A", "V", "O", "R", " ",
                    "D", "E", " ", "A", "C", "M", "E", " ", "S", "L", " ",
                    "F", "R", "A", " ", "0", "0", "0", "1">>,
                  <<"-", "7", "3", ",", "1", "7">>,
                  <<"9", ".", "1", "0", "3", ",", "7", "2">>)

LineLong2 ==
    StatementLine(<<"1", "5", "/", "0", "1", "/", "2", "0", "2", "5">>,
                  <<"1", "6", "/", "0", "1", "/", "2", "0", "2", "5">>,
                  <<"T", "R", "A", "N", "S", "F", "E", "R", "E", "N", "C",
                    "I", "A", " ", "A", " ", "F", "A", "V", "O", "R", " ",
                    "D", "E", " ", "A", "C", "M", "E", " ", "S", "L", " ",
                    "F", "R", "A", " ", "0", "0", "0", "2">>,
                  <<"-", "7", "3", ",", "1", "7">>,
                  <<"9", ".", "0", "3", "0", ",", "5", "5">>)

\* a piece of the column header that a pattern takes for a movement
LineHeader ==
    StatementLine(<<"1", "5", "/", "0", "1", "/", "2", "0", "2", "5">>,
                  <<"1", "6", "/", "0", "1", "/", "2", "0", "2", "5">>,
                  <<"C", "o", "n", "c", "e", "p", "t", "o">>,
                  <<"-", "7", "3", ",", "1", "7">>,
                  <<>>)

StatementLines ==
    {LineLuz, LineGas, LineLuzAgain, LineLong1, LineLong2, LineHeader}

\* the BBVA patterns take dates with '/' only
SlashDatedLines == StatementLines \ {LineLuzAgain}

\* what the looser pattern of an extractor finds
LooseLines == {LineLuz, LineHeader}

\* the lists of at most n of the given lines
Matches(lines, n) == UNION { [1..len -> lines] : len \in 0..n }

\* the groups of the patterns
BlockGroups(line) ==
    <<line.concepto, line.importeRaw, line.saldoRaw, line.fContable,
      line.fValor>>

TwoDateGroups(line) ==
    <<line.fContable, line.fValor, line.concepto, line.importeRaw,
      line.saldoRaw>>

TwoDateGroupsNoSaldo(line) ==
    <<line.fContable, line.fValor, line.concepto, line.importeRaw>>

OneDateGroups(line) ==
    <<line.fContable, line.concepto, line.importeRaw, line.saldoRaw>>

OneDateGroupsNoSaldo(line) ==
    <<line.fContable, line.concepto, line.importeRaw>>

\* matchAll: the groups of every line the pattern matches
Found(lines, Groups(_)) == [i \in 1..Len(lines) |-> Groups(lines[i])]

ExtractorInputs(fn, lines) ==
    { [fn |-> fn, primary |-> primary, fallback |-> fallback] :
        primary \in Matches(lines, MaxMatches),
        fallback \in Matches(LooseLines, MaxMatches) }

\* an entry as a ledger prints it; form tells the patterns of
\* SUPPLIER_PATTERNS that match it
LedgerLine(fecha, codigo, nombre, documento, referencia, importeRaw, form) ==
    [fecha |-> fecha, codigo |-> codigo, nombre |-> nombre,
     documento |-> documento, referencia |-> referencia,
     importeRaw |-> importeRaw, form |-> form]

\* document number/letters/number, then a reference
LedgerInvoice ==
    LedgerLine(<<"3", "1", "/", "0", "1", "/", "2", "0", "2", "5">>,
               <<"4", "0", "0", "1", "2", "3">>,
               <<"A", "C", "M", "E", " ", "S", "L">>,
               <<"1", "/", "F", "C", "/", "2", "5", "0", "4", "8", "2">>,
               <<"R", "E", "F", "0", "1">>,
               <<"1", "4", "8", ",", "2", "9">>,
               "full")

\* the same document and amount under another reference
LedgerInvoiceAgain ==
    LedgerLine(<<"3", "1", "/", "0", "1", "/", "2", "0", "2", "5">>,
               <<"4", "0", "0", "1", "2", "3">>,
               <<"A", "C", "M", "E", " ", "S", "L">>,
               <<"1", "/", "F", "C", "/", "2", "5", "0", "4", "8", "2">>,
               <<"R", "E", "F", "0", "9">>,
               <<"1", "4", "8", ",", "2", "9">>,
               "full")

\* document letters-number-number, then a reference
LedgerAlphanumeric ==
    LedgerLine(<<"3", "1", "/", "0", "1", "/", "2", "0", "2", "5">>,
               <<"4", "0", "0", "1", "2", "3">>,
               <<"A", "C", "M", "E", " ", "S", "L">>,
               <<"F", "C", "-", "2", "0", "2", "4", "-", "0", "0", "1">>,
               <<"R", "E", "F", "0", "2">>,
               <<"2", "0", "0", ",", "0", "0">>,
               "alphanumeric")

\* document followed by the amount
LedgerNoReference ==
    LedgerLine(<<"3", "1", "/", "0", "1", "/", "2", "0", "2", "5">>,
               <<"4", "0", "0", "1", "2", "3">>,
               <<"A", "C", "M", "E", " ", "S", "L">>,
               <<"2", "/", "F", "C", "/", "2", "5", "0", "4", "8", "3">>,
               <<>>,
               <<"9", "9", ",", "1", "0">>,
               "bare")

LedgerLines ==
    {LedgerInvoice, LedgerInvoiceAgain, LedgerAlphanumeric,
     LedgerNoReference}

\* SUPPLIER_PATTERNS[pattern - 1] matches the entry: pattern 1 and the more
\* flexible pattern 3 both match number/letters/number followed by one
\* more word, pattern 2 letters-number, pattern 4 no word before the amount
supplierPatternMatches(pattern, line) ==
    \/ pattern \in {1, 3} /\ line.form = "full"
    \/ pattern = 2 /\ line.form = "alphanumeric"
    \/ pattern = 4 /\ line.form = "bare"

\* the groups of SUPPLIER_PATTERNS[pattern - 1]: patterns 1 and 2 capture
\* the reference, pattern 3 skips it with \S+, pattern 4 has none
supplierGroups(pattern, line) ==
    IF pattern \in {1, 2}
    THEN <<line.fecha, line.codigo, line.nombre, line.documento,
           line.referencia, line.importeRaw>>
    ELSE <<line.fecha, line.codigo, line.nombre, line.documento,
           line.importeRaw>>

\* text.matchAll(pattern)
supplierFound(pattern, lines) ==
    LET matching(line) == supplierPatternMatches(pattern, line)
        matched == SelectSeq(lines, matching)
    IN  [i \in 1..Len(matched) |-> supplierGroups(pattern, matched[i])]

SupplierInputs ==
    { [fn |-> "supplier", text |-> text] :
        text \in Matches(LedgerLines, MaxMatches) }

-----------------------------------------------------------------------------
(* The utility functions, each called on its own. input is the call: the
   name of the function and its arguments; output is what it returned. *)

\* amounts run over -MaxAmount..MaxAmount thousandths
MaxAmount == 12

\* tolerances in thousandths: negative, zero, the smallest step, the default
Tolerances == {-1, 0, 1, DefaultTolerance}

AmountsMatchInputs ==
    { [fn |-> "amountsMatch", amount1 |-> a, amount2 |-> b, tolerance |-> t] :
        a \in -MaxAmount..MaxAmount, b \in -MaxAmount..MaxAmount,
        t \in Tolerances }

\* strings of parseCurrency run up to MaxLen characters
MaxLen == 5

CurrencyChars == {"1", "5", ",", ".", "-", " ", "x"}

\* amounts as the parsers read them from documents
CurrencyExamples ==
    { <<"1", ".", "2", "3", "4", ",", "5", "6">>,
      <<"1", ",", "2", "3", "4", ".", "5", "6">>,
      <<"-", "1", ".", "2", "3", "4", ",", "5", "6", " ", "$">>,
      <<"$", "1", ",", "2", "3", "4", ".", "5", "0">>,
      <<"2", ".", "0", "1", "0", ".", "0", "0", "0", ",", "7">>,
      <<"$">> }

ParseCurrencyInputs ==
    { [fn |-> "parseCurrency", str |-> str] :
        str \in {Null} \cup
                { Some(chars) :
                    chars \in CurrencyExamples \cup
                        UNION { [1..n -> CurrencyChars] : n \in 0..MaxLen } } }

\* the characters two-digit years are written with: 00 .. 99 around 49 | 50
YearChars == {"0", "2", "4", "5", "7", "9"}

\* the dates of a document: day, month and year around '-' or '/', the year
\* with two or four digits; an Excel serial; no date; the empty cell
DateStrings ==
    { day \o <<sep>> \o month \o <<sep>> \o year :
        day \in {<<"5">>, <<"2", "5">>},
        sep \in {"-", "/"},
        month \in {<<"o", "c", "t">>, <<"D", "i", "c">>, <<"1", "0">>,
                   <<"3">>},
        year \in [1..2 -> YearChars] \cup
                 {<<"1", "9", "7", "5">>, <<"2", "0", "2", "5">>} }
    \cup { <<"4", "5", "9", "5", "5">>, <<"7">>, <<"x">>, <<>>,
           <<" ", "5", "-", "o", "c", "t", "-", "2", "5">> }

SupplierExcelNormalizeDateInputs ==
    { [fn |-> "supplierExcelParser.normalizeDate", dateStr |-> d] :
        d \in {Null} \cup { Some(str) : str \in DateStrings } }

SantanderNormalizeDateInputs ==
    { [fn |-> "santanderParser.normalizeDate", dateStr |-> Some(str)] :
        str \in DateStrings }

Calling(fn) == ~IsNull(input) /\ IsNull(output) /\ Val(input).fn = fn

Called(fn) == ~IsNull(input) /\ ~IsNull(output) /\ Val(input).fn = fn

UtilInit ==
    /\ \/ input \in { Some(i) : i \in AmountsMatchInputs }
       \/ input \in { Some(i) : i \in ParseCurrencyInputs }
       \/ input \in { Some(i) : i \in SupplierExcelNormalizeDateInputs }
       \/ input \in { Some(i) : i \in SantanderNormalizeDateInputs }
       \/ input \in { Some(i) : i \in ExtractorInputs("santander",
                                                       StatementLines) }
       \/ input \in { Some(i) : i \in ExtractorInputs("caixabank",
                                                       StatementLines) }
       \/ input \in { Some(i) : i \in ExtractorInputs("sabadell",
                                                       StatementLines) }
       \/ input \in { Some(i) : i \in ExtractorInputs("bbva",
                                                       SlashDatedLines) }
       \/ input \in { Some(i) : i \in SupplierInputs }
    /\ output = Null
    /\ results = <<>>
    /\ stats = Null
    /\ NoProcess
    /\ NoCall
    /\ NoLoad

AmountsMatchCall ==
    /\ Calling("amountsMatch")
    /\ output' = Some(amountsMatch(Val(input).amount1, Val(input).amount2,
                                   Val(input).tolerance))
    /\ UNCHANGED <<input, results, stats, callVars, processVars,
                   loaderVars>>

ParseCurrencyCall ==
    /\ Calling("parseCurrency")
    /\ output' = Some(parseCurrency(Val(input).str))
    /\ UNCHANGED <<input, results, stats, callVars, processVars,
                   loaderVars>>

SupplierExcelNormalizeDateCall ==
    /\ Calling("supplierExcelParser.normalizeDate")
    /\ output' = Some(supplierExcelNormalizeDate(Val(input).dateStr))
    /\ UNCHANGED <<input, results, stats, callVars, processVars,
                   loaderVars>>

SantanderNormalizeDateCall ==
    /\ Calling("santanderParser.normalizeDate")
    /\ output' = Some(santanderNormalizeDate(Val(Val(input).dateStr)))
    /\ UNCHANGED <<input, results, stats, callVars, processVars,
                   loaderVars>>

SantanderExtractCall ==
    /\ Calling("santander")
    /\ output' = Some(santanderExtractMovementsFromText(
                          <<Found(Val(input).primary, BlockGroups),
                            Found(Val(input).fallback, TwoDateGroups)>>))
    /\ UNCHANGED <<input, results, stats, callVars, processVars,
                   loaderVars>>

CaixabankExtractCall ==
    /\ Calling("caixabank")
    /\ output' = Some(caixabankExtractMovementsFromText(
                          <<Found(Val(input).primary, TwoDateGroupsNoSaldo),
                            Found(Val(input).fallback, OneDateGroups)>>))
    /\ UNCHANGED <<input, results, stats, callVars, processVars,
                   loaderVars>>

SabadellExtractCall ==
    /\ Calling("sabadell")
    /\ output' = Some(sabadellExtractMovementsFromText(
                          <<Found(Val(input).primary, TwoDateGroups),
                            Found(Val(input).fallback,
                                  OneDateGroupsNoSaldo)>>))
    /\ UNCHANGED <<input, results, stats, callVars, processVars,
                   loaderVars>>

\* a line that the first BBVA pattern matches is matched by the three
\* two-date patterns after it as well
BbvaExtractCall ==
    /\ Calling("bbva")
    /\ output' = Some(bbvaExtractMovementsFromText(
                          <<Found(Val(input).primary, TwoDateGroupsNoSaldo),
                            Found(Val(input).primary, TwoDateGroupsNoSaldo),
                            Found(Val(input).primary, TwoDateGroupsNoSaldo),
                            Found(Val(input).primary, TwoDateGroupsNoSaldo),
                            Found(Val(input).fallback,
                                  OneDateGroupsNoSaldo)>>))
    /\ UNCHANGED <<input, results, stats, callVars, processVars,
                   loaderVars>>

\* extractSupplierRecords(text, fileName)
ExtractSupplierRecordsCall ==
    /\ Calling("supplier")
    /\ output' = Some(extractSupplierRecords(
                          [pattern \in 1..4 |->
                              supplierFound(pattern, Val(input).text)]))
    /\ UNCHANGED <<input, results, stats, callVars, processVars,
                   loaderVars>>

UtilNext ==
    \/ AmountsMatchCall
    \/ ParseCurrencyCall
    \/ SupplierExcelNormalizeDateCall
    \/ SantanderNormalizeDateCall
    \/ SantanderExtractCall
    \/ CaixabankExtractCall
    \/ SabadellExtractCall
    \/ BbvaExtractCall
    \/ ExtractSupplierRecordsCall

UtilSpec == UtilInit /\ [][UtilNext]_vars


-----------------------------------------------------------------------------
(* services/pdf/pdfLoader.ts: loadPdfLibrary under calls that come while a
   script is loading, after it loaded and after it failed. A promise is
   named by its place in promises; a script by its place in scripts; the
   script of promise k is script k. *)

\* loadPdfLibrary is called up to MaxLoads times
MaxLoads == 6

\* Promise.resolve(): a promise that is resolved when handed out
ResolvedPromise == 0

\* if (loadingPromise) return loadingPromise, left out
loadPdfLibraryUncached ==
    /\ Len(handed) < MaxLoads
    /\ IF isLoaded /\ pdfjsLib
       THEN /\ handed' = Append(handed, ResolvedPromise)
            /\ UNCHANGED <<loadingPromise, scripts, promises>>
       ELSE /\ promises' = Append(promises, "pending")
            /\ scripts' = Append(scripts, "loading")
            /\ loadingPromise' = Some(Len(promises) + 1)
            /\ handed' = Append(handed, Len(promises) + 1)
    /\ UNCHANGED <<isLoaded, pdfjsLib>>

\* loadPdfLibrary(): the call up to its return; the executor of the new
\* promise runs inside the call and appends the script
loadPdfLibrary ==
    /\ Len(handed) < MaxLoads
    /\ IF isLoaded /\ pdfjsLib
       THEN /\ handed' = Append(handed, ResolvedPromise)
            /\ UNCHANGED <<loadingPromise, scripts, promises>>
       ELSE IF ~IsNull(loadingPromise)
       THEN /\ handed' = Append(handed, Val(loadingPromise))
            /\ UNCHANGED <<loadingPromise, scripts, promises>>
       ELSE /\ promises' = Append(promises, "pending")
            /\ scripts' = Append(scripts, "loading")
            /\ loadingPromise' = Some(Len(promises) + 1)
            /\ handed' = Append(handed, Len(promises) + 1)
    /\ UNCHANGED <<isLoaded, pdfjsLib>>

\* script.onload of script k; the script, once run, has defined
\* window.pdfjsLib or has not
onload(k, defined) ==
    /\ k \in 1..Len(scripts)
    /\ scripts[k] = "loading"
    /\ scripts' = [scripts EXCEPT ![k] = "loaded"]
    /\ pdfjsLib' = (pdfjsLib \/ defined)
    /\ IF pdfjsLib'
       THEN /\ isLoaded' = TRUE
            /\ promises' = [promises EXCEPT ![k] = "resolved"]
       ELSE /\ promises' = [promises EXCEPT ![k] = "rejected"]
            /\ UNCHANGED isLoaded
    /\ UNCHANGED <<loadingPromise, handed>>

\* script.onerror of script k
onerror(k) ==
    /\ k \in 1..Len(scripts)
    /\ scripts[k] = "loading"
    /\ scripts' = [scripts EXCEPT ![k] = "failed"]
    /\ loadingPromise' = Null
    /\ promises' = [promises EXCEPT ![k] = "rejected"]
    /\ UNCHANGED <<isLoaded, pdfjsLib, handed>>

LoaderInit ==
    /\ NoLoad
    /\ NoCall
    /\ NoProcess
    /\ NoUtil
    /\ results = <<>>
    /\ stats = Null

LoadPdfLibraryCall ==
    /\ loadPdfLibrary
    /\ UNCHANGED <<results, stats, callVars, processVars, utilVars>>

ScriptLoaded ==
    /\ \E k \in 1..MaxLoads : \E defined \in BOOLEAN : onload(k, defined)
    /\ UNCHANGED <<results, stats, callVars, processVars, utilVars>>

ScriptFailed ==
    /\ \E k \in 1..MaxLoads : onerror(k)
    /\ UNCHANGED <<results, stats, callVars, processVars, utilVars>>

LoaderNext ==
    \/ LoadPdfLibraryCall
    \/ ScriptLoaded
    \/ ScriptFailed

LoaderSpec == LoaderInit /\ [][LoaderNext]_vars

-----------------------------------------------------------------------------
(* Properties. *)

InCall == pc \in {"map", "returned"}

\* At least one callback has run; the definitions below describe the last one.
Processed == InCall /\ Len(matchedRecords) > 0

LastBank == bankRecords[Len(matchLog)]
LastOut == matchedRecords[Len(matchedRecords)]
match == matchLog[Len(matchLog)]

\* | |supplier.importe| - |bank.importe| | < amountTolerance
WithinTolerance(supplier, bank) ==
    LET a == IF supplier.importe < 0 THEN -supplier.importe
             ELSE supplier.importe
        b == IF bank.importe < 0 THEN -bank.importe ELSE bank.importe
    IN  (a - b < mergedOptions.amountTolerance)
            /\ (b - a < mergedOptions.amountTolerance)

\* Places in the pool, as the last callback found it, of the amount-candidates
Candidates == {j \in 1..Len(poolAtCall) :
                  WithinTolerance(poolAtCall[j], LastBank)}

DistinctIds(records) ==
    \A i, j \in 1..Len(records) : records[i].id = records[j].id => i = j

SameMonth(d1, d2) == d1 # NoDate /\ d2 # NoDate /\ d1.m = d2.m /\ d1.y = d2.y

\* C1: with pairwise distinct supplier ids, no supplier record is handed to
\* two bank records: the matches map injectively onto the supplier records.
C1_NoSupplierTwice ==
    (InCall /\ DistinctIds(supplierRecords)) =>
        \A i, j \in 1..Len(matchLog) :
            (~IsNull(matchLog[i]) /\ ~IsNull(matchLog[j])
                /\ Val(matchLog[i]).ref = Val(matchLog[j]).ref) => i = j

\* Two bank records were matched and the second one could have taken the
\* supplier record of the first, had it still been in the pool.
C1_Witness ==
    /\ pc = "returned"
    /\ DistinctIds(supplierRecords)
    /\ Len(matchLog) = 2
    /\ ~IsNull(matchLog[1]) /\ ~IsNull(matchLog[2])
    /\ WithinTolerance(Val(matchLog[1]), bankRecords[2])
    /\ Val(matchLog[1]).ref # Val(matchLog[2]).ref

C3_UnmatchedIffNoCandidate ==
    Processed =>
        /\ (LastOut.status = "unmatched") <=> (Candidates = {})
        /\ \A j \in 1..Len(poolAtCall) :
              LET s == poolAtCall[j].importe
                  b == LastBank.importe
                  t == mergedOptions.amountTolerance
              IN  /\ amountsMatch(s, b, t) = amountsMatch(-s, b, t)
                  /\ amountsMatch(s, b, t) = amountsMatch(s, -b, t)

\* Unmatched although the pool is not empty and a supplier record of the input
\* (consumed by an earlier bank record) was within tolerance.
C3_Witness ==
    /\ Processed
    /\ LastOut.status = "unmatched"
    /\ Len(poolAtCall) > 0
    /\ \E k \in 1..Len(supplierRecords) :
          WithinTolerance(supplierRecords[k], LastBank)

\* C4: every output record is either a 'match' carrying the documento and
\* nombre of one supplier input record within tolerance of its bank record, or
\* 'unmatched' with matchedDoc and supplierName null.
C4_TwoShapes ==
    pc = "returned" =>
        \A i \in 1..Len(Val(result).records) :
            LET r == Val(result).records[i]
            IN  \/ /\ r.status = "match"
                   /\ \E k \in 1..Len(supplierRecords) :
                         /\ r.matchedDoc = Some(supplierRecords[k].documento)
                         /\ r.supplierName = Some(supplierRecords[k].nombre)
                         /\ WithinTolerance(supplierRecords[k], bankRecords[i])
                \/ /\ r.status = "unmatched"
                   /\ r.matchedDoc = Null
                   /\ r.supplierName = Null

\* A result holding both shapes.
C4_Witness ==
    /\ pc = "returned"
    /\ \E i, j \in 1..Len(Val(result).records) :
          /\ Val(result).records[i].status = "match"
          /\ Val(result).records[i].supplierName # Null
          /\ Val(result).records[j].status = "unmatched"

\* C5: two or more candidates, one of them dated on the value date: the
\* selected record is dated on the value date.
C5_ExactValueDateWins ==
    (/\ Processed
     /\ Cardinality(Candidates) >= 2
     /\ \E j \in Candidates : poolAtCall[j].fecha = LastBank.fValor)
        => (~IsNull(match) /\ Val(match).fecha = LastBank.fValor)

\* The candidate dated on the value date comes after one of the same month.
C5_Witness ==
    /\ Processed
    /\ \E i, j \in Candidates :
          /\ i < j
          /\ poolAtCall[j].fecha = LastBank.fValor
          /\ poolAtCall[i].fecha # LastBank.fValor
          /\ SameMonth(poolAtCall[i].fecha, LastBank.fValor)
    /\ Val(match).fecha = LastBank.fValor

\* The case of C6: several candidates, none dated on the value date, one dated
\* on the accounting date, useAccountingDate enabled.
C6_Case ==
    /\ Processed
    /\ Cardinality(Candidates) >= 2
    /\ mergedOptions.useAccountingDate
    /\ \A j \in Candidates : poolAtCall[j].fecha # LastBank.fValor
    /\ \E j \in Candidates : poolAtCall[j].fecha = LastBank.fContable

SomeCandidateInValueMonth ==
    \E j \in Candidates : SameMonth(poolAtCall[j].fecha, LastBank.fValor)

\* C6 as claimed: in that case the record dated on the accounting date is
\* selected, also ahead of a candidate of the value date's month.
C6_AsClaimed ==
    C6_Case => (~IsNull(match) /\ Val(match).fecha = LastBank.fContable)

\* C6 (amended): in that case the narrowing to the value date's month comes
\* first: if some candidate shares the value date's month and year the selected
\* record is one of those, and only otherwise is it the record dated on the
\* accounting date.
C6_ValueMonthBeforeAccountingDate ==
    C6_Case =>
        /\ ~IsNull(match)
        /\ IF SomeCandidateInValueMonth
           THEN SameMonth(Val(match).fecha, LastBank.fValor)
           ELSE Val(match).fecha = LastBank.fContable

\* No candidate in the value date's month, the one dated on the accounting
\* date is not the nearest to the value date, and it is selected.
C6_Witness ==
    /\ C6_Case
    /\ ~SomeCandidateInValueMonth
    /\ Val(match).fecha = LastBank.fContable
    /\ \E j \in Candidates :
          /\ poolAtCall[j].fecha # NoDate
          /\ Abs(Val(parseDate(poolAtCall[j].fecha))
                    - Val(parseDate(LastBank.fValor)))
               < Abs(Val(parseDate(LastBank.fContable))
                        - Val(parseDate(LastBank.fValor)))


\* C8: performReconciliation returns one output record per bank record, in the
\* order of the bank records, each with every field of its bank record
\* unchanged; with no bank record it returns an empty list.
C8_OneOutputPerBankRecord ==
    /\ InCall =>
          /\ Len(matchedRecords) <= Len(bankRecords)
          /\ \A i \in 1..Len(matchedRecords) :
                \A k \in DOMAIN bankRecords[i] :
                    matchedRecords[i][k] = bankRecords[i][k]
    /\ pc = "returned" =>
          /\ ~IsNull(result)
          /\ Len(Val(result).records) = Len(bankRecords)
          /\ \A i \in 1..Len(bankRecords) :
                \A k \in DOMAIN bankRecords[i] :
                    Val(result).records[i][k] = bankRecords[i][k]

\* No bank record against a non-empty supplier list: an empty result.
C8_Witness ==
    /\ pc = "returned"
    /\ Len(bankRecords) = 0
    /\ Len(supplierRecords) > 0
    /\ Val(result).records = <<>>

\* C9: matchPercentage is a number of [0, 100], is matches / bankTotal x 100
\* when there are bank records and is 0 (not a division by zero) when there are
\* none.
C9_PercentageInRange ==
    pc = "returned" =>
        LET st == Val(result).stats
            p  == st.matchPercentage
        IN  /\ p.den > 0
            /\ 0 <= p.num
            /\ p.num <= 100 * p.den
            /\ st.bankTotal > 0 =>
                  p.num * st.bankTotal = st.matches * 100 * p.den
            /\ Len(bankRecords) = 0 => p.num = 0

\* Half of the bank records matched: 50%.
C9_Witness ==
    /\ pc = "returned"
    /\ Len(bankRecords) = 2
    /\ Val(result).stats.matches = 1
    /\ Val(result).stats.matchPercentage.num
          = 50 * Val(result).stats.matchPercentage.den

\* What updateDocument(recordId, newDocument) may do to one record.
C10_Overridden(before, after, args) ==
    IF before.id = args.recordId
    THEN /\ DOMAIN after = DOMAIN before
         /\ after.matchedDoc = (IF args.newDocument = "" THEN Null
                                ELSE Some(args.newDocument))
         /\ \A k \in (DOMAIN before) \ {"matchedDoc"} : after[k] = before[k]
    ELSE after = before

\* C10: updateDocument sets the matchedDoc of the records whose id is recordId
\* (null for an empty newDocument) and changes nothing else: not the other
\* records, not the other fields, not the order, not the stats; an unknown
\* recordId changes nothing.
C10_OverrideFrame ==
    [][(pc = "idle" /\ pc' = "idle") =>
          /\ ~IsNull(updateArgs')
          /\ stats' = stats
          /\ Len(results') = Len(results)
          /\ \A j \in 1..Len(results) :
                C10_Overridden(results[j], results'[j], Val(updateArgs'))]_vars

\* An unmatched record was given a document and is still 'unmatched', next to
\* a record with another id.
C10_Witness ==
    /\ pc = "idle"
    /\ ~IsNull(updateArgs)
    /\ Len(results) = 2
    /\ \E i, j \in 1..Len(results) :
          /\ results[i].id = Val(updateArgs).recordId
          /\ results[i].status = "unmatched"
          /\ results[i].matchedDoc = Some(Val(updateArgs).newDocument)
          /\ results[j].id # Val(updateArgs).recordId
          /\ results[j].status = "match"
          /\ results[j].matchedDoc # Some(Val(updateArgs).newDocument)

-----------------------------------------------------------------------------
(* Properties of process. *)

Invocations == 1..Len(invocations)

\* Invocation c ends in this step, in an error.
EndsInError(c) ==
    invocations[c].outcome = "pending" /\ invocations'[c].outcome = "error"

\* The invocation ended because a parser call threw (not because no record
\* was found).
ParseFailed(inv) ==
    /\ inv.outcome = "error"
    /\ inv.message # NoBankRecordsMessage
    /\ inv.message # NoSupplierRecordsMessage

Names(files) == [j \in 1..Len(files) |-> files[j].name]

\* The piece name is in the message.
Contains(message, name) == \E j \in 1..Len(message) : message[j] = name

ParseOrder(inv) ==
    Names(inv.bankFiles) \o Names(inv.supplierPdfFiles)
        \o Names(SelectSeq(inv.supplierExcelFiles,
                           LAMBDA f : Len(f.selectedSheets) # 0))

\* C12 as claimed: when a file fails to parse no later file of the batch is
\* parsed, and the error of the invocation contains the name of the file that
\* failed, for bank files, supplier PDF files and supplier Excel files alike.
C12_AsClaimed ==
    \A c \in Invocations :
        LET inv == invocations[c]
        IN  ParseFailed(inv) =>
                /\ inv.parsed = SubSeq(ParseOrder(inv), 1, Len(inv.parsed))
                /\ Contains(inv.message, inv.parsed[Len(inv.parsed)])

\* A file of the batch was parsed and yielded no record.
YieldedNothing(inv) ==
    \E j \in 1..Len(inv.bankFiles) :
        /\ inv.bankFiles[j].content = "image"
        /\ Contains(inv.parsed, inv.bankFiles[j].name)

\* C13 as claimed: a file that yields zero records makes the invocation end in
\* an error without performReconciliation being run, also when other files of
\* the batch yielded records.
C13_AsClaimed ==
    \A c \in Invocations :
        LET inv == invocations[c]
        IN  (inv.phase = "done" /\ YieldedNothing(inv)) =>
                (inv.outcome = "error" /\ IsNull(inv.reconciliation))

\* C14: process called with an empty bank-file list or an empty supplier-file
\* list sets the error and does nothing else: no file is parsed,
\* performReconciliation is not run, and results, stats and isProcessing keep
\* their values.
C14_EmptyInputRejected ==
    [][(/\ Len(invocations') = Len(invocations) + 1
        /\ (Len(bankUpload) = 0 \/ Len(supplierUpload) = 0)) =>
          LET inv == invocations'[Len(invocations')]
          IN  /\ error' = Some(EmptyInputMessage)
              /\ results' = results
              /\ stats' = stats
              /\ isProcessing' = isProcessing
              /\ inv.outcome = "rejected"
              /\ inv.parsed = <<>>
              /\ IsNull(inv.reconciliation)
              /\ \A c \in Invocations : invocations'[c] = invocations[c]]_vars

\* A call with no bank file was rejected while the results of an earlier call
\* stand.
C14_Witness ==
    \E c \in Invocations :
        /\ invocations[c].outcome = "rejected"
        /\ Len(invocations[c].bankFiles) = 0
        /\ Len(invocations[c].supplierFiles) > 0
        /\ error = Some(EmptyInputMessage)
        /\ results # <<>>
        /\ stats # Null

\* C15 as claimed: process never ends successfully while an uploaded supplier
\* file was skipped without being parsed.
C15_AsClaimed ==
    \A c \in Invocations :
        invocations[c].outcome = "success" => invocations[c].skipped = <<>>


-----------------------------------------------------------------------------
(* Properties of the utility functions. *)

\* C16 as the claim states it: amountsMatch gives the same answer with its two
\* amounts exchanged, answers true for an amount and itself whatever the
\* tolerance, and answers false when ||a| - |b|| >= tolerance.
C16_AsClaimed ==
    Called("amountsMatch") =>
        LET a == Val(input).amount1
            b == Val(input).amount2
            tol == Val(input).tolerance
        IN  /\ Val(output) = amountsMatch(b, a, tol)
            /\ (a = b => Val(output) = TRUE)
            /\ (Abs(Abs(a) - Abs(b)) >= tol => Val(output) = FALSE)

\* C16: amountsMatch gives the same answer with its two amounts exchanged,
\* answers true for an amount and itself exactly when the tolerance is
\* positive, and answers false when ||a| - |b|| >= tolerance.
C16_SymmetricStrictTolerance ==
    Called("amountsMatch") =>
        LET a == Val(input).amount1
            b == Val(input).amount2
            tol == Val(input).tolerance
        IN  /\ Val(output) = amountsMatch(b, a, tol)
            /\ (a = b => (Val(output) <=> tol > 0))
            /\ (Abs(Abs(a) - Abs(b)) >= tol => Val(output) = FALSE)

\* an amount compared with itself under the tolerance zero: the answer is
\* false
C16_Witness ==
    /\ Called("amountsMatch")
    /\ Val(input).amount1 = Val(input).amount2
    /\ Val(input).amount1 # 0
    /\ Val(input).tolerance = 0
    /\ Val(output) = FALSE

\* the position of the separator, ',' or '.', that occurs last in chars
LastSeparator(chars) ==
    CHOOSE i \in 1..Len(chars) :
        /\ chars[i] \in {",", "."}
        /\ \A j \in (i + 1)..Len(chars) : chars[j] \notin {",", "."}

\* chars holds both ',' and '.', the one that occurs last occurs once, and a
\* minus sign, if there is one, is alone and stands before every digit and
\* separator
BothSeparators(chars) ==
    /\ includes(chars, ",")
    /\ includes(chars, ".")
    /\ Cardinality({ i \in 1..Len(chars) :
                       chars[i] = chars[LastSeparator(chars)] }) = 1
    /\ Cardinality({ i \in 1..Len(chars) : chars[i] = "-" }) <= 1
    /\ \A i \in 1..Len(chars) :
           chars[i] = "-" =>
               \A j \in 1..(i - 1) : chars[j] \notin Digits \cup {",", "."}

\* the number chars writes when the separator at position mark is the decimal
\* mark and every other character but the digits and the sign is stripped
ReadWithDecimalMark(chars, mark) ==
    LET magnitude == DigitsValue(keepOnly(chars, Digits))
        decimals == Cardinality({ i \in (mark + 1)..Len(chars) :
                                    chars[i] \in Digits })
    IN  Number(IF includes(chars, "-") THEN -magnitude ELSE magnitude,
               decimals)

\* C17: parseCurrency always returns a number; it returns 0 for null, for
\* the empty string and for a string without a digit; when the string holds
\* both ',' and '.', the separator that occurs last is read as the decimal
\* mark and the other one is stripped, so "1.234,56" and "1,234.56" both
\* give 1234.56.
C17_ParseCurrencyTotal ==
    Called("parseCurrency") =>
        LET str == Val(input).str
            chars == IF IsNull(str) THEN <<>> ELSE Val(str)
            parsed == Val(output)
        IN  /\ ~parsed.nan
            /\ (keepOnly(chars, Digits) = <<>> => NumEq(parsed, Zero))
            /\ (BothSeparators(chars) =>
                    NumEq(parsed,
                          ReadWithDecimalMark(chars, LastSeparator(chars))))
            /\ (chars = <<"1", ".", "2", "3", "4", ",", "5", "6">> =>
                    NumEq(parsed, Number(123456, 2)))
            /\ (chars = <<"1", ",", "2", "3", "4", ".", "5", "6">> =>
                    NumEq(parsed, Number(123456, 2)))

\* "1.234,56" has been parsed as 1234.56
C17_Witness ==
    /\ Called("parseCurrency")
    /\ ~IsNull(Val(input).str)
    /\ Val(Val(input).str) = <<"1", ".", "2", "3", "4", ",", "5", "6">>
    /\ Val(output) = Number(123456, 2)

\* the year the claim's rule gives a two-digit year
PivotYear(yearShort) ==
    IF DigitsValue(yearShort) < 50
    THEN 2000 + DigitsValue(yearShort)
    ELSE 1900 + DigitsValue(yearShort)

\* the '-' or '/' separated parts of a date string
DateParts(str) == split(replaceEach(str, "-", "/"), "/")

\* a normalizeDate call on a date written with a two-digit year has returned
\* a date DD/MM/YYYY
TwoDigitYearNormalized ==
    /\ \/ Called("supplierExcelParser.normalizeDate")
       \/ Called("santanderParser.normalizeDate")
    /\ ~IsNull(Val(input).dateStr)
    /\ Len(DateParts(Val(Val(input).dateStr))) = 3
    /\ AllDigits(DateParts(Val(Val(input).dateStr))[3], 2, 2)
    /\ Len(split(Val(output), "/")) = 3

\* C18 as claimed: wherever a date with a two-digit year is normalised, a
\* year below 50 becomes 20xx and a year from 50 to 99 becomes 19xx.
C18_AsClaimed ==
    TwoDigitYearNormalized =>
        LET yearShort == DateParts(Val(Val(input).dateStr))[3]
            year == split(Val(output), "/")[3]
        IN  /\ AllDigits(year, 4, 4)
            /\ DigitsValue(year) = PivotYear(yearShort)

-----------------------------------------------------------------------------
(* Properties of the closeness tiers. *)

\* days between two dates
DaysApart(d1, d2) == Abs(Val(parseDate(d1)) - Val(parseDate(d2)))

\* C19: no candidate is dated on the value date and some candidate shares the
\* value date's month and year: the selected record is one of that month,
\* and of those the nearest in days to the value date, also when a candidate
\* of another month is nearer.
C19_NearestInValueMonth ==
    (/\ Processed
     /\ \A j \in Candidates : poolAtCall[j].fecha # LastBank.fValor
     /\ SomeCandidateInValueMonth)
        => /\ ~IsNull(match)
           /\ SameMonth(Val(match).fecha, LastBank.fValor)
           /\ \A j \in Candidates :
                 SameMonth(poolAtCall[j].fecha, LastBank.fValor) =>
                     DaysApart(Val(match).fecha, LastBank.fValor)
                         <= DaysApart(poolAtCall[j].fecha, LastBank.fValor)

\* Two candidates of the value date's month and one of another month that is
\* nearer in days than both: the nearer of the two is selected.
C19_Witness ==
    /\ Processed
    /\ ~IsNull(match)
    /\ SameMonth(Val(match).fecha, LastBank.fValor)
    /\ Val(match).fecha # LastBank.fValor
    /\ \E i, j \in Candidates :
          /\ SameMonth(poolAtCall[i].fecha, LastBank.fValor)
          /\ DaysApart(poolAtCall[i].fecha, LastBank.fValor)
               > DaysApart(Val(match).fecha, LastBank.fValor)
          /\ poolAtCall[j].fecha # NoDate
          /\ ~SameMonth(poolAtCall[j].fecha, LastBank.fValor)
          /\ DaysApart(poolAtCall[j].fecha, LastBank.fValor)
               < DaysApart(Val(match).fecha, LastBank.fValor)

\* min(|d - valueDate|, |d - accountingDate|) for the last bank record
NearestBankDate(fecha) ==
    IF DaysApart(fecha, LastBank.fValor) < DaysApart(fecha, LastBank.fContable)
    THEN DaysApart(fecha, LastBank.fValor)
    ELSE DaysApart(fecha, LastBank.fContable)

\* The last fallback: several candidates, all dated, none in the month of the
\* value date or of the accounting date, useAccountingDate enabled.
LastFallback ==
    /\ Processed
    /\ Cardinality(Candidates) >= 2
    /\ mergedOptions.useAccountingDate
    /\ LastBank.fValor # NoDate
    /\ LastBank.fContable # NoDate
    /\ \A j \in Candidates :
          /\ poolAtCall[j].fecha # NoDate
          /\ ~SameMonth(poolAtCall[j].fecha, LastBank.fValor)
          /\ ~SameMonth(poolAtCall[j].fecha, LastBank.fContable)

\* C20 as claimed: in the last fallback the selected record minimises
\* min(|d - valueDate|, |d - accountingDate|) over the candidates.
C20_AsClaimed ==
    LastFallback =>
        /\ ~IsNull(match)
        /\ \A j \in Candidates :
              NearestBankDate(Val(match).fecha)
                  <= NearestBankDate(poolAtCall[j].fecha)

-----------------------------------------------------------------------------
(* Properties of whole calls. *)

\* the supplier each output record carries
Selection(records) ==
    [ i \in 1..Len(records) |->
        <<records[i].status, records[i].matchedDoc, records[i].supplierName>> ]

\* accounting dates a second run may carry in place of the first run's
AccountingDates == {D28Dec, D20Jan, NoDate}

\* the bank records with only their fContable values replaced
WithAccountingDates(bank, dates) ==
    [ i \in 1..Len(bank) |-> [bank[i] EXCEPT !.fContable = dates[i]] ]

\* C21: with useAccountingDate = false, a second run on the same inputs but
\* for the bank records' fContable values selects the same supplier record for
\* every bank record as the run that has returned.
C21_AccountingDateHasNoInfluence ==
    (pc = "returned" /\ ~mergedOptions.useAccountingDate) =>
        \A dates \in [1..Len(bankRecords) -> AccountingDates] :
            Selection(performReconciliation(
                          WithAccountingDates(bankRecords, dates),
                          supplierRecords, options).records)
                = Selection(Val(result).records)

\* A run with useAccountingDate = false has returned on inputs for which, with
\* the option enabled, another accounting date changes the selection.
C21_Witness ==
    /\ pc = "returned"
    /\ ~mergedOptions.useAccountingDate
    /\ \E i \in 1..Len(matchLog) : ~IsNull(matchLog[i])
    /\ \E dates \in [1..Len(bankRecords) -> AccountingDates] :
          Selection(performReconciliation(
                        WithAccountingDates(bankRecords, dates),
                        supplierRecords, NoOptions).records)
              # Selection(performReconciliation(bankRecords, supplierRecords,
                                                NoOptions).records)

-----------------------------------------------------------------------------
(* Properties of the extractors. *)

\* the four key parts of a movement: posting date, value date, amount and the
\* first 30 characters of the description
KeyParts(fContable, fValor, importeRaw, concepto) ==
    <<slashDate(fContable), slashDate(fValor), importeRaw,
      substring(cleanConcept(concepto), 30)>>

LineKeyParts(line) ==
    KeyParts(line.fContable, line.fValor, line.importeRaw, line.concepto)

\* the records extracted for the key parts of a line
RecordsOf(line) ==
    { k \in 1..Len(Val(output).records) :
        LET record == Val(output).records[k]
        IN  KeyParts(record.fContable, record.fValor, record.importeRaw,
                     record.concepto) = LineKeyParts(line) }

\* two movements found in one pass, both with a description that is one
PairInOnePass(i, j) ==
    /\ i # j
    /\ isValidConcept(cleanConcept(Val(input).primary[i].concepto))
    /\ isValidConcept(cleanConcept(Val(input).primary[j].concepto))

\* C22 as claimed: of the movements one pass of a statement extractor finds,
\* two with the same posting date, value date and amount and with
\* descriptions that differ within their first 30 characters are both kept,
\* and movements equal in the four key parts make one record.
C22_AsClaimed ==
    (Called("santander") \/ Called("bbva")) =>
        \A i, j \in 1..Len(Val(input).primary) :
            PairInOnePass(i, j) =>
                LET a == LineKeyParts(Val(input).primary[i])
                    b == LineKeyParts(Val(input).primary[j])
                IN  /\ (a[1] = b[1] /\ a[2] = b[2] /\ a[3] = b[3]
                            /\ a[4] # b[4]) =>
                           /\ RecordsOf(Val(input).primary[i]) # {}
                           /\ RecordsOf(Val(input).primary[j]) # {}
                    /\ a = b =>
                           Cardinality(RecordsOf(Val(input).primary[i])) = 1

\* the extractor takes the description for one of a movement
Accepts(fn, concepto) ==
    IF fn = "santander" THEN isValidConcept(cleanConcept(concepto))
    ELSE IF fn = "caixabank" THEN Len(trim(concepto)) > 2
    ELSE Len(trim(concepto)) > 2 /\ ~isHeaderText(trim(concepto))

\* the primary pattern finds a movement the extractor accepts
PrimaryYields ==
    \E i \in 1..Len(Val(input).primary) :
        Accepts(Val(input).fn, Val(input).primary[i].concepto)

\* the pattern the first record was built from
FirstPattern == Val(output).records[1].pattern

\* C23: in the CaixaBank, Sabadell and Santander extractors the looser
\* pattern is run exactly when the primary pattern gave no accepted record;
\* when the primary pattern gives a record, all records of the output are
\* built from matches of the primary pattern.
C23_FallbackOnlyOnZero ==
    (Called("caixabank") \/ Called("sabadell") \/ Called("santander")) =>
        /\ Len(Val(output).passes) \in 1..2
        /\ Len(Val(output).passes) = 2 <=> ~PrimaryYields
        /\ PrimaryYields =>
               /\ Len(Val(output).records) >= 1
               /\ FirstPattern \in {"Match", "Match (2 fechas)"}
               /\ \A k \in 1..Len(Val(output).records) :
                     Val(output).records[k].pattern = FirstPattern
        /\ ~PrimaryYields =>
               \A k \in 1..Len(Val(output).records) :
                   Val(output).records[k].pattern
                       \in {"Match (alt)", "Match (1 fecha)"}

\* The primary pattern gave a record and the looser pattern, which was not
\* run, would have found a movement.
C23_Witness ==
    /\ Called("sabadell")
    /\ PrimaryYields
    /\ Len(Val(output).passes) = 1
    /\ Len(Val(output).records) = 2
    /\ \E i \in 1..Len(Val(input).fallback) :
          Accepts("sabadell", Val(input).fallback[i].concepto)

\* the records an earlier pattern than the given one gave
EarlierRecords(pattern) ==
    { k \in 1..Len(Val(output).records) :
        Val(output).records[k].pattern < pattern }

\* C24: the ledger text extractor runs a later pattern only when the
\* earlier ones gave no record, and no record of a later pattern stands
\* beside a record of an earlier one.
C24_AsClaimed ==
    Called("supplier") =>
        /\ \A k \in 1..Len(Val(output).passes) :
              supplierFound(Val(output).passes[k], Val(input).text) # <<>>
                  => EarlierRecords(Val(output).passes[k]) = {}
        /\ \A j, k \in 1..Len(Val(output).records) :
              Val(output).records[j].pattern = Val(output).records[k].pattern

-----------------------------------------------------------------------------
(* Properties of the statistics of a call. *)

\* the output records standing as matched
MatchedIndexes ==
    { k \in 1..Len(Val(result).records) :
        Val(result).records[k].status = "match" }

\* C25: the statistics of a returned call agree with its records: bankTotal
\* is the number of output records, matches the number of them with status
\* match, matches + unmatchedCount = bankTotal, supplierTotal the length of
\* the supplier list handed in, and with distinct supplier ids
\* matches <= supplierTotal.
C25_StatsAgreeWithRecords ==
    pc = "returned" =>
        LET s == Val(result).stats
        IN  /\ s.bankTotal = Len(Val(result).records)
            /\ s.matches = Cardinality(MatchedIndexes)
            /\ s.matches + s.unmatchedCount = s.bankTotal
            /\ s.supplierTotal = Len(supplierRecords)
            /\ DistinctIds(supplierRecords) => s.matches <= s.supplierTotal

\* A returned call with a matched and an unmatched record, distinct ids, and
\* fewer suppliers left in the pool than were handed in.
C25_Witness ==
    /\ pc = "returned"
    /\ DistinctIds(supplierRecords)
    /\ Val(result).stats.matches >= 1
    /\ Val(result).stats.unmatchedCount >= 1
    /\ Len(availableSuppliers) < Val(result).stats.supplierTotal
    /\ Len(availableSuppliers) >= 1

-----------------------------------------------------------------------------
(* Properties of the loader of the PDF library. *)

\* the scripts whose load is in flight
InFlight == { k \in 1..Len(scripts) : scripts[k] = "loading" }

\* this step is a call of loadPdfLibrary
LoadCalled == Len(handed') = Len(handed) + 1

\* what the call of this step returned
Handed == handed'[Len(handed')]

\* the call of this step comes while the promise of a load is pending
CalledWhilePending ==
    /\ LoadCalled
    /\ ~IsNull(loadingPromise)
    /\ promises[Val(loadingPromise)] = "pending"

\* the call of this step comes after a load succeeded
CalledAfterSuccess ==
    /\ LoadCalled
    /\ \E k \in 1..Len(promises) : promises[k] = "resolved"

\* C26: under every interleaving of loadPdfLibrary calls with the load and
\* error events of the scripts, at most one script load is in flight; a
\* call made while a load is pending returns the pending promise and
\* appends no second script; a call made after a load succeeded returns a
\* promise that is resolved already and appends no script.
C26_OneLoadInFlight ==
    /\ [](Cardinality(InFlight) <= 1)
    /\ [][/\ CalledWhilePending =>
                /\ Handed = Val(loadingPromise)
                /\ scripts' = scripts
          /\ CalledAfterSuccess =>
                /\ \/ Handed = ResolvedPromise
                   \/ promises[Handed] = "resolved"
                /\ scripts' = scripts]_vars

\* Two calls came while the first script was loading and were handed the
\* same promise; a call after the load succeeded was handed a resolved one.
C26_Witness ==
    /\ Len(scripts) = 1
    /\ Len(handed) = 3
    /\ handed[1] = 1
    /\ handed[2] = 1
    /\ handed[3] = ResolvedPromise
    /\ promises[1] = "resolved"

\* the call of this step comes after a load attempt failed and no later
\* attempt is pending or has succeeded
CalledAfterFailure ==
    /\ LoadCalled
    /\ Len(scripts) >= 1
    /\ scripts[Len(scripts)] \in {"loaded", "failed"}
    /\ promises[Len(promises)] = "rejected"
    /\ ~(isLoaded /\ pdfjsLib)

\* C27: after a failed load attempt, be it a network error or a script that
\* loaded without defining window.pdfjsLib, a later loadPdfLibrary call
\* starts a new attempt and is never handed the rejected promise.
C27_AsClaimed ==
    [][CalledAfterFailure =>
          /\ Len(scripts') = Len(scripts) + 1
          /\ Handed # ResolvedPromise
          /\ promises'[Handed] # "rejected"]_vars

-----------------------------------------------------------------------------
(* Properties of isProcessing. *)

\* the invocations that passed the empty check and have not reached their
\* finally
Parsing ==
    { c \in 1..Len(invocations) : invocations[c].outcome = "pending" }

\* C28: while a process invocation has started parsing and has not finished,
\* isProcessing is true, whatever the interleaving, two overlapping
\* invocations of which one finishes first included.
C28_AsClaimed == Parsing # {} => isProcessing

\* the invocations that ran through their finally
Finished ==
    { c \in 1..Len(invocations) :
        invocations[c].outcome \in {"success", "error"} }

\* C29: when the promises of the parses settle, every process invocation
\* that passed the empty check finishes, and the step that finishes it, by
\* the end of the try or by the catch, leaves isProcessing false: an
\* invocation stops parsing only by finishing, that step leaves isProcessing
\* false, a finished invocation stays finished, and every invocation is in
\* the end parsing no more.
C29_EveryInvocationFinishes ==
    /\ \A c \in 1..MaxCalls : <>[](c \notin Parsing)
    /\ [][\A c \in 1..MaxCalls :
             /\ (c \in Parsing /\ c \notin Parsing')
                    => (c \in Finished' /\ ~isProcessing')
             /\ c \in Finished => c \in Finished']_vars

\* An invocation finished by its catch and another by the end of its try,
\* and isProcessing is false.
C29_Witness ==
    /\ \E c \in Finished : invocations[c].outcome = "error"
    /\ \E c \in Finished : invocations[c].outcome = "success"
    /\ Parsing = {}
    /\ ~isProcessing

-----------------------------------------------------------------------------
(* Properties of the number of matches. *)

\* the absolute amounts of the records of a call
AmountClasses ==
    { Abs(bankRecords[i].importe) : i \in 1..Len(bankRecords) }
        \cup { Abs(supplierRecords[j].importe) : j \in 1..Len(supplierRecords) }

\* matching within the tolerance is transitive on the amounts of the call: two
\* amounts are equal in absolute value or at least the tolerance apart
TransitiveAmounts ==
    \A a, b \in AmountClasses :
        a = b \/ Abs(a - b) >= mergedOptions.amountTolerance

\* the records of an absolute amount
InClass(records, a) ==
    { i \in 1..Len(records) : Abs(records[i].importe) = a }

\* the sum over the classes of min(bank records, supplier records)
RECURSIVE SumOfMin(_)
SumOfMin(classes) ==
    IF classes = {} THEN 0
    ELSE
        LET a == CHOOSE x \in classes : TRUE
            inBank == Cardinality(InClass(bankRecords, a))
            inSuppliers == Cardinality(InClass(supplierRecords, a))
        IN  (IF inBank < inSuppliers THEN inBank ELSE inSuppliers)
                + SumOfMin(classes \ {a})

Reversed(records) ==
    [i \in 1..Len(records) |-> records[Len(records) + 1 - i]]

\* the call on the same records the other way round
ReversedCall ==
    performReconciliation(Reversed(bankRecords), Reversed(supplierRecords),
                          options)

====
